---- MODULE Spec2Model ----
(***************************************************************************)
(* Template variable substitution of topic-lab: the expression parser, the *)
(* builtin registry with its time, uuid and random resolvers, and the      *)
(* substitution engine (src/utils/builtins.ts, src/utils/variables.ts).    *)
(*                                                                         *)
(* A JavaScript string is modelled as a sequence of one-character strings, *)
(* so that scanning, splitting, case conversion and number rendering are   *)
(* computed character by character as the code computes them.              *)
(***************************************************************************)
EXTENDS Integers, Sequences, FiniteSets

VARIABLES call, template, variables, env, result, prevResult, iterations,
          drawn, pc, calls, bName, bModifiers, bMember, bResolved,
          names, missing, pExpression, pParsed,
          connection, dialog, file, io, returned,
          data, saved, activeConnectionId, connectionStatus, error, ops, events,
          button, isMultiSending, publishing, intervalRef, timers, starts, ticks,
          messages, loads, backlog, arrived, clears

\* extractVariableNames and getMissingVariables: their results
namesVars == <<names, missing>>

\* parseVariableExpression: its argument and its result
parseVars == <<pExpression, pParsed>>

\* exportConnection and importConnection: the argument, what the dialog
\* gives, the file written, the calls of the file system made, the result
apiVars == <<connection, dialog, file, io, returned>>

\* the variables of the calls of the utilities
utilVars == <<call, template, variables, env, result, prevResult, iterations,
              drawn, pc, calls, bName, bModifiers, bMember, bResolved,
              namesVars, parseVars, apiVars>>

\* AppProvider: the state of the context (data, activeConnectionId,
\* connectionStatus, error), the data the backend has saved, the operations
\* in flight and the mqtt-status events delivered
appVars == <<data, saved, activeConnectionId, connectionStatus, error, ops, events>>

\* the state of AppProvider that the components do not change by themselves
providerVars == <<data, saved, activeConnectionId, error, ops, events>>

\* ButtonCard: the button it shows, its state (isMultiSending, publishing),
\* intervalRef.current, the interval timers that are scheduled, the calls
\* of startMultiSend that await their first publish and the publishes of
\* timer ticks in flight
cardVars == <<button, isMultiSending, publishing, intervalRef, timers, starts, ticks>>

\* MessageViewer: its messages, the calls of api.getMessages in flight, the
\* messages the backend holds, the number of messages that have arrived
\* and the calls of api.clearMessages in flight
viewerVars == <<messages, loads, backlog, arrived, clears>>

uiVars == <<appVars, cardVars, viewerVars>>

vars == <<utilVars, uiVars>>

(***************************************************************************)
(* Characters and strings                                                  *)
(***************************************************************************)
LowerLetters == <<"a","b","c","d","e","f","g","h","i","j","k","l","m","n","o","p","q","r","s","t","u","v","w","x","y","z">>

UpperLetters == <<"A","B","C","D","E","F","G","H","I","J","K","L","M","N","O","P","Q","R","S","T","U","V","W","X","Y","Z">>

DigitChars == <<"0","1","2","3","4","5","6","7","8","9">>

Range(f) == {f[i] : i \in DOMAIN f}

\* [a-zA-Z_]
NameStartChars == Range(LowerLetters) \cup Range(UpperLetters) \cup {"_"}

\* [a-zA-Z0-9_]
NameChars == NameStartChars \cup Range(DigitChars)

DigitSet == Range(DigitChars)

UpperSet == Range(UpperLetters)

IsDigit(c) == c \in DigitSet

\* value of a decimal digit character
DigitValue(c) == (CHOOSE i \in DOMAIN DigitChars : DigitChars[i] = c) - 1

\* String.prototype.toLowerCase on the ASCII range
LowerChar(c) ==
    IF c \in UpperSet
    THEN LowerLetters[CHOOSE i \in DOMAIN UpperLetters : UpperLetters[i] = c]
    ELSE c

toLowerCase(s) == [i \in DOMAIN s |-> LowerChar(s[i])]

\* s.startsWith(p)
startsWith(s, p) == Len(s) >= Len(p) /\ SubSeq(s, 1, Len(p)) = p

\* the least element of a non-empty set of positions
Least(ps) == CHOOSE p \in ps : \A q \in ps : p <= q

\* the positions at or after i where p occurs in s
Occurrences(s, p, i) ==
    {j \in i..(Len(s) - Len(p) + 1) : SubSeq(s, j, j + Len(p) - 1) = p}

\* index of the first occurrence of p in s at or after i, 0 when there is none
IndexOfFrom(s, p, i) ==
    IF Occurrences(s, p, i) = {} THEN 0 ELSE Least(Occurrences(s, p, i))

Contains(s, p) == IndexOfFrom(s, p, 1) # 0

\* s.replace(p, r) with a string pattern: the first occurrence only
ReplaceFirst(s, p, r) ==
    LET i == IndexOfFrom(s, p, 1)
    IN  IF i = 0 THEN s
        ELSE SubSeq(s, 1, i - 1) \o r \o SubSeq(s, i + Len(p), Len(s))

\* s.split(sep) for a one-character separator: the segment from position i
\* to the separator at j (0 when none is left), and the segments after it
RECURSIVE SplitFrom(_, _, _)
SplitAt(s, sep, i, j) ==
    IF j = 0 THEN <<SubSeq(s, i, Len(s))>>
    ELSE <<SubSeq(s, i, j - 1)>> \o SplitFrom(s, sep, j + 1)

SplitFrom(s, sep, i) == SplitAt(s, sep, i, IndexOfFrom(s, <<sep>>, i))

Split(s, sep) == SplitFrom(s, sep, 1)

\* Array.prototype.join
RECURSIVE Join(_, _)
Join(a, sep) ==
    IF Len(a) = 0 THEN <<>>
    ELSE IF Len(a) = 1 THEN a[1]
    ELSE a[1] \o sep \o Join(Tail(a), sep)

\* parseInt on a string of decimal digits
RECURSIVE ParseDigits(_, _)
ParseDigits(s, acc) ==
    IF Len(s) = 0 THEN acc
    ELSE ParseDigits(Tail(s), acc * 10 + DigitValue(Head(s)))

parseInt(s) == ParseDigits(s, 0)

\* Number.prototype.toString for an integer
RECURSIVE NatToString(_)
NatToString(n) ==
    IF n < 10 THEN <<DigitChars[n + 1]>>
    ELSE Append(NatToString(n \div 10), DigitChars[(n % 10) + 1])

IntToString(n) == IF n < 0 THEN <<"-">> \o NatToString(-n) ELSE NatToString(n)

\* s.padStart(width, '0')
RECURSIVE padStart(_, _)
padStart(s, width) == IF Len(s) >= width THEN s ELSE padStart(<<"0">> \o s, width)

(***************************************************************************)
(* JavaScript values that reach the substitution callback                  *)
(***************************************************************************)
StringVal(s) == [t |-> "string", s |-> s, a |-> <<>>]

NullVal == [t |-> "null", s |-> <<>>, a |-> <<>>]

ArrayVal(a) == [t |-> "array", s |-> <<>>, a |-> a]

\* an exception leaving the function; s is the error's constructor name
Thrown(e) == [t |-> "throw", s |-> e, a |-> <<>>]

\* ToString, as String.prototype.replace applies it to the callback's result
ToString(v) == IF v.t = "array" THEN Join(v.a, <<",">>) ELSE v.s

(***************************************************************************)
(* Object.prototype: what the in operator and a property read find on an   *)
(* object literal besides its own keys                                     *)
(***************************************************************************)
ObjectPrototypeKeys ==
    { <<"c","o","n","s","t","r","u","c","t","o","r">>, <<"_","_","p","r","o","t","o","_","_">>, <<"t","o","S","t","r","i","n","g">>, <<"t","o","L","o","c","a","l","e","S","t","r","i","n","g">>, <<"v","a","l","u","e","O","f">>,
      <<"h","a","s","O","w","n","P","r","o","p","e","r","t","y">>, <<"i","s","P","r","o","t","o","t","y","p","e","O","f">>, <<"p","r","o","p","e","r","t","y","I","s","E","n","u","m","e","r","a","b","l","e">>,
      <<"_","_","d","e","f","i","n","e","G","e","t","t","e","r","_","_">>, <<"_","_","d","e","f","i","n","e","S","e","t","t","e","r","_","_">>, <<"_","_","l","o","o","k","u","p","G","e","t","t","e","r","_","_">>,
      <<"_","_","l","o","o","k","u","p","S","e","t","t","e","r","_","_">> }

\* ToString of the inherited member read under key k
InheritedToString(k) ==
    IF k = <<"_","_","p","r","o","t","o","_","_">> THEN <<"[","o","b","j","e","c","t"," ","O","b","j","e","c","t","]">>
    ELSE <<"f","u","n","c","t","i","o","n"," ">> \o (IF k = <<"c","o","n","s","t","r","u","c","t","o","r">> THEN <<"O","b","j","e","c","t">> ELSE k)
             \o <<"(",")"," ","{"," ","[","n","a","t","i","v","e"," ","c","o","d","e","]"," ","}">>

\* the variable map is the sequence of its own <<name, value>> entries
OwnKeys(m) == {m[i][1] : i \in DOMAIN m}

\* name in variables
InVariables(name, m) == name \in OwnKeys(m) \/ name \in ObjectPrototypeKeys

\* variables[name], converted to a string
GetVariable(name, m) ==
    IF name \in OwnKeys(m)
    THEN m[CHOOSE i \in DOMAIN m : m[i][1] = name][2]
    ELSE InheritedToString(name)

(***************************************************************************)
(* The random source: the k-th call of Math.random() in a run returns the  *)
(* draw draws[k], chosen by the environment.  A draw d below RandDen is    *)
(* the number d / RandDen; the draw RandDen is the greatest number below   *)
(* 1 that Math.random() can return, 1 - 2^-53.                             *)
(***************************************************************************)
RandDen == 16

Draws == 0..RandDen

DrawAt(e, k) == e.draws[(k % Len(e.draws)) + 1]

\* (Math.random() * 16) | 0
Times16(d) == IF d = RandDen THEN 15 ELSE (d * 16) \div RandDen

(***************************************************************************)
(* Date: a time value is kept as whole days since the epoch plus the       *)
(* milliseconds within the day, or is invalid (NaN).  The environment      *)
(* gives the clock reading and the local zone's offset from UTC in         *)
(* minutes, taken as fixed over the instants of a run.                     *)
(***************************************************************************)
MsPerDay == 24 * 60 * 60 * 1000

\* TimeClip: a time value beyond 8.64e15 ms (100,000,000 days) is NaN
MaxDay == 100 * 1000 * 1000

\* beyond this many years or months from year 0 every date is out of range
FieldLimit == 4 * 1000 * 1000

InvalidDate == [valid |-> FALSE, day |-> 0, ms |-> 0]

\* MakeDate followed by TimeClip
MakeDate(day, ms) ==
    LET d == day + (ms \div MsPerDay)
        r == ms % MsPerDay
    IN  IF d > MaxDay \/ d < -MaxDay \/ (d = MaxDay /\ r > 0) THEN InvalidDate
        ELSE [valid |-> TRUE, day |-> d, ms |-> r]

\* day number of a civil date (proleptic Gregorian calendar), month 1..12:
\* the year is counted from March, in eras of 400 years (146097 days)
DaysFromEra(era, yoe, doy) ==
    era * 146097 + yoe * 365 + (yoe \div 4) - (yoe \div 100) + doy - 719468

DaysFromMarch(y, mp, d) ==
    DaysFromEra(y \div 400, y % 400, ((153 * mp + 2) \div 5) + d - 1)

DaysFromCivil(y0, m, d) ==
    DaysFromMarch(IF m <= 2 THEN y0 - 1 ELSE y0, IF m > 2 THEN m - 3 ELSE m + 9, d)

\* YearFromTime, MonthFromTime (1..12) and DateFromTime of a day number
CivilOfMonth(y, mp, doy) ==
    [year  |-> IF mp < 10 THEN y ELSE y + 1,
     month |-> IF mp < 10 THEN mp + 3 ELSE mp - 9,
     date  |-> doy - ((153 * mp + 2) \div 5) + 1]

CivilOfDoy(y, doy) == CivilOfMonth(y, (5 * doy + 2) \div 153, doy)

CivilOfYoe(era, doe, yoe) ==
    CivilOfDoy(yoe + era * 400, doe - (365 * yoe + (yoe \div 4) - (yoe \div 100)))

CivilOfEra(era, doe) ==
    CivilOfYoe(era, doe,
               (doe - (doe \div 1460) + (doe \div 36524) - (doe \div 146096)) \div 365)

CivilFromDays(z) == CivilOfEra((z + 719468) \div 146097, (z + 719468) % 146097)

\* the calendar and clock fields of local day number day at ms of that day
FieldsOf(c, day, ms) ==
    [year |-> c.year, month |-> c.month, date |-> c.date,
     hours |-> ms \div 3600000, minutes |-> (ms \div 60000) % 60,
     seconds |-> (ms \div 1000) % 60, ms |-> ms % 1000,
     day |-> day, msOfDay |-> ms]

FieldsShifted(date, shift) ==
    FieldsOf(CivilFromDays(date.day + ((date.ms + shift) \div MsPerDay)),
             date.day + ((date.ms + shift) \div MsPerDay),
             (date.ms + shift) % MsPerDay)

\* the fields of a date in UTC (getUTC...) or in the local zone (get...)
Fields(date, useUtc, e) ==
    FieldsShifted(date, IF useUtc THEN 0 ELSE e.tz * 60 * 1000)

\* the date whose local fields are (year, month0 + 1, date) at local time ms,
\* as MakeDay normalises a month outside 0..11 and a date outside the month
FromLocal(year, month0, date, ms, e) ==
    IF year > FieldLimit \/ year < -FieldLimit
       \/ month0 > FieldLimit \/ month0 < -FieldLimit
       \/ date > 2 * MaxDay \/ date < -(2 * MaxDay)
    THEN InvalidDate
    ELSE MakeDate(DaysFromCivil(year + (month0 \div 12), (month0 % 12) + 1, 1)
                    + date - 1,
                  ms - e.tz * 60 * 1000)

OFFSET_UNITS == Range(<<"s","m","h","d","w","M","y">>)

\* OFFSET_PATTERN = /^([+-])(\d+)([smhdwMy])$/
OffsetMatches(modifier) ==
    /\ Len(modifier) >= 3
    /\ modifier[1] \in {"+", "-"}
    /\ \A i \in 2..(Len(modifier) - 1) : IsDigit(modifier[i])
    /\ modifier[Len(modifier)] \in OFFSET_UNITS

NoOffset == [has |-> FALSE, amount |-> 0, unit |-> "s"]

parseOffset(modifier) ==
    IF ~OffsetMatches(modifier) THEN NoOffset
    ELSE [has |-> TRUE,
          amount |-> parseInt(SubSeq(modifier, 2, Len(modifier) - 1))
                       * (IF modifier[1] = "-" THEN -1 ELSE 1),
          unit |-> modifier[Len(modifier)]]

\* the setters work on the local fields f and carry into the larger ones
OffsetFields(f, a, unit, e) ==
    CASE unit = "s" ->
           FromLocal(f.year, f.month - 1, f.date + (a \div 86400),
                     f.msOfDay + (a % 86400) * 1000, e)
      [] unit = "m" ->
           FromLocal(f.year, f.month - 1, f.date + (a \div 1440),
                     f.msOfDay + (a % 1440) * 60000, e)
      [] unit = "h" ->
           FromLocal(f.year, f.month - 1, f.date + (a \div 24),
                     f.msOfDay + (a % 24) * 3600000, e)
      [] unit = "d" ->
           FromLocal(f.year, f.month - 1,
                     IF a > 2 * MaxDay THEN 3 * MaxDay
                     ELSE IF a < -(2 * MaxDay) THEN -(3 * MaxDay)
                     ELSE f.date + a, f.msOfDay, e)
      [] unit = "w" ->
           FromLocal(f.year, f.month - 1,
                     IF a > MaxDay \div 3 THEN 3 * MaxDay
                     ELSE IF a < -(MaxDay \div 3) THEN -(3 * MaxDay)
                     ELSE f.date + a * 7, f.msOfDay, e)
      [] unit = "M" -> FromLocal(f.year, f.month - 1 + a, f.date, f.msOfDay, e)
      [] unit = "y" -> FromLocal(f.year + a, f.month - 1, f.date, f.msOfDay, e)

applyOffset(date, offset, e) ==
    IF ~date.valid THEN InvalidDate
    ELSE OffsetFields(Fields(date, FALSE, e), offset.amount, offset.unit, e)

NoModifiers ==
    [offset |-> NoOffset, timezone |-> "", format |-> "", hasCustom |-> FALSE,
     customFormat |-> <<>>]

TIME_FORMATS == { <<"i","s","o">>, <<"u","n","i","x">>, <<"u","n","i","x","m","s">>, <<"d","a","t","e">>, <<"t","i","m","e">>, <<"d","a","t","e","t","i","m","e">> }

\* the name of a preset as the string the switch of formatDate compares
FormatName(lowerMod) ==
    CASE lowerMod = <<"i","s","o">> -> "iso"
      [] lowerMod = <<"u","n","i","x">> -> "unix"
      [] lowerMod = <<"u","n","i","x","m","s">> -> "unixms"
      [] lowerMod = <<"d","a","t","e">> -> "date"
      [] lowerMod = <<"t","i","m","e">> -> "time"
      [] lowerMod = <<"d","a","t","e","t","i","m","e">> -> "datetime"

\* one turn of a loop that keeps the first offset it meets
ParseModifierFirstOffset(res, mod) ==
    LET lowerMod == toLowerCase(mod)
    IN  IF lowerMod = <<"u","t","c">> THEN [res EXCEPT !.timezone = "utc"]
        ELSE IF lowerMod = <<"l","o","c","a","l">> THEN [res EXCEPT !.timezone = "local"]
        ELSE IF lowerMod \in TIME_FORMATS
             THEN [res EXCEPT !.format = FormatName(lowerMod)]
        ELSE IF startsWith(mod, <<"f","m","t",":">>)
             THEN [res EXCEPT !.hasCustom = TRUE,
                              !.customFormat = SubSeq(mod, 5, Len(mod))]
        ELSE IF parseOffset(mod).has /\ ~res.offset.has
             THEN [res EXCEPT !.offset = parseOffset(mod)]
        ELSE res

\* one turn of the loop of parseModifiers
ParseModifier(res, mod) ==
    LET lowerMod == toLowerCase(mod)
    IN  IF lowerMod = <<"u","t","c">> THEN [res EXCEPT !.timezone = "utc"]
        ELSE IF lowerMod = <<"l","o","c","a","l">> THEN [res EXCEPT !.timezone = "local"]
        ELSE IF lowerMod \in TIME_FORMATS
             THEN [res EXCEPT !.format = FormatName(lowerMod)]
        ELSE IF startsWith(mod, <<"f","m","t",":">>)
             THEN [res EXCEPT !.hasCustom = TRUE,
                              !.customFormat = SubSeq(mod, 5, Len(mod))]
        ELSE IF parseOffset(mod).has
             THEN [res EXCEPT !.offset = parseOffset(mod)]
        ELSE res

RECURSIVE ParseModifiersFrom(_, _)
ParseModifiersFrom(res, modifiers) ==
    IF Len(modifiers) = 0 THEN res
    ELSE ParseModifiersFrom(ParseModifier(res, Head(modifiers)), Tail(modifiers))

parseModifiers(modifiers) == ParseModifiersFrom(NoModifiers, modifiers)

\* the year of toISOString: four digits, or a sign and six digits
IsoYear(y) ==
    IF y >= 0 /\ y <= 9999 THEN padStart(NatToString(y), 4)
    ELSE IF y < 0 THEN <<"-">> \o padStart(NatToString(-y), 6)
    ELSE <<"+">> \o padStart(NatToString(y), 6)

Pad2(n) == padStart(NatToString(n), 2)

IsoDatePart(f) == IsoYear(f.year) \o <<"-">> \o Pad2(f.month) \o <<"-">> \o Pad2(f.date)

IsoTimePart(f) == Pad2(f.hours) \o <<":">> \o Pad2(f.minutes) \o <<":">> \o Pad2(f.seconds)

IsoOfFields(f) ==
    IsoDatePart(f) \o <<"T">> \o IsoTimePart(f) \o <<".">>
      \o padStart(NatToString(f.ms), 3) \o <<"Z">>

\* Date.prototype.toISOString of a valid date
toISOString(date, e) == IsoOfFields(Fields(date, TRUE, e))

LocaleDateOfFields(f) ==
    IntToString(f.year) \o <<"-">> \o Pad2(f.month) \o <<"-">> \o Pad2(f.date)

\* toLocaleDateString('en-CA'): year-month-day of the local date
toLocaleDateString(date, e) ==
    IF ~date.valid THEN <<"I","n","v","a","l","i","d"," ","D","a","t","e">>
    ELSE LocaleDateOfFields(Fields(date, FALSE, e))

\* toLocaleTimeString('en-GB', { hour12: false }): the local time of day
toLocaleTimeString(date, e) ==
    IF ~date.valid THEN <<"I","n","v","a","l","i","d"," ","D","a","t","e">> ELSE IsoTimePart(Fields(date, FALSE, e))

\* Numbers up to 8.64e15 are kept as hi * 10^6 + lo with 0 <= lo < 10^6, so
\* that no intermediate exceeds the range of the integers being computed with
Million == 1000 * 1000

BigNorm(hi, lo) == [hi |-> hi + (lo \div Million), lo |-> lo % Million]

\* Number.prototype.toString of hi * 10^6 + lo
BigToString(n) ==
    IF n.hi = 0 THEN NatToString(n.lo)
    ELSE IF n.hi > 0 THEN NatToString(n.hi) \o padStart(NatToString(n.lo), 6)
    ELSE IF n.lo = 0 THEN <<"-">> \o NatToString(-n.hi) \o <<"0","0","0","0","0","0">>
    ELSE IF n.hi = -1 THEN <<"-">> \o NatToString(Million - n.lo)
    ELSE <<"-">> \o NatToString(-n.hi - 1) \o padStart(NatToString(Million - n.lo), 6)

\* Math.floor(date.getTime() / 1000) from the thousands of days dh, the
\* days left dl and the seconds of the day
SecondsOf(dh, dl, secOfDay) ==
    BigNorm(dh * 86 + ((dh * 4) \div 10),
            ((dh * 4) % 10) * 100000 + dl * 86400 + secOfDay)

UnixSeconds(date) == SecondsOf(date.day \div 1000, date.day % 1000, date.ms \div 1000)

\* the rendering of sec * 1000 + ms
MillisString(sec, ms) ==
    IF sec.hi >= 0
    THEN IF sec.hi = 0 /\ sec.lo = 0 THEN NatToString(ms)
         ELSE BigToString(sec) \o padStart(NatToString(ms), 3)
    ELSE IF ms = 0 THEN BigToString(sec) \o <<"0","0","0">>
    ELSE IF sec.hi = -1 /\ sec.lo = Million - 1 THEN <<"-">> \o NatToString(1000 - ms)
    ELSE BigToString(BigNorm(sec.hi, sec.lo + 1)) \o padStart(NatToString(1000 - ms), 3)

\* date.getTime().toString()
UnixMillisString(date) == MillisString(UnixSeconds(date), date.ms % 1000)

NaNString == <<"N","a","N">>

\* formatDate on a valid date whose toISOString is iso
FormatValid(date, iso, format, useUtc, e) ==
    CASE format = "unix" -> BigToString(UnixSeconds(date))
      [] format = "unixms" -> UnixMillisString(date)
      [] format = "date" ->
           IF useUtc THEN Split(iso, "T")[1] ELSE toLocaleDateString(date, e)
      [] format = "time" ->
           IF useUtc THEN Split(Split(iso, "T")[2], ".")[1]
           ELSE toLocaleTimeString(date, e)
      [] format = "datetime" ->
           IF useUtc THEN Split(ReplaceFirst(iso, <<"T">>, <<" ">>), ".")[1]
           ELSE toLocaleDateString(date, e) \o <<" ">> \o toLocaleTimeString(date, e)
      [] OTHER -> IF useUtc THEN iso ELSE ReplaceFirst(iso, <<"Z">>, <<>>)

\* formatDate on an invalid date: toISOString throws a RangeError, the other
\* renderings give "NaN" or "Invalid Date"
FormatInvalid(format, useUtc) ==
    CASE format \in {"unix", "unixms"} -> StringVal(NaNString)
      [] format \in {"date", "time"} ->
           IF useUtc THEN Thrown(<<"R","a","n","g","e","E","r","r","o","r">>) ELSE StringVal(<<"I","n","v","a","l","i","d"," ","D","a","t","e">>)
      [] format = "datetime" ->
           IF useUtc THEN Thrown(<<"R","a","n","g","e","E","r","r","o","r">>)
           ELSE StringVal(<<"I","n","v","a","l","i","d"," ","D","a","t","e"," ","I","n","v","a","l","i","d"," ","D","a","t","e">>)
      [] OTHER -> Thrown(<<"R","a","n","g","e","E","r","r","o","r">>)

formatDate(date, format, useUtc, e) ==
    IF date.valid
    THEN StringVal(FormatValid(date, toISOString(date, e), format, useUtc, e))
    ELSE FormatInvalid(format, useUtc)

\* the remainder operator of JavaScript: the sign of the dividend
JsRem(a, b) == IF a >= 0 THEN a % b ELSE -((-a) % b)

\* n.toString().padStart(width, '0')
PadField(valid, n, width) ==
    padStart(IF valid THEN IntToString(n) ELSE NaNString, width)

\* a chain of replace calls that tries each short token before its double
CustomShortFirst(pattern, f, valid) ==
    LET r1  == ReplaceFirst(pattern, <<"Y","Y">>, PadField(valid, JsRem(f.year, 100), 2))
        r2  == ReplaceFirst(r1, <<"Y","Y","Y","Y">>, PadField(valid, f.year, 0))
        r3  == ReplaceFirst(r2, <<"M">>, PadField(valid, f.month, 0))
        r4  == ReplaceFirst(r3, <<"M","M">>, PadField(valid, f.month, 2))
        r5  == ReplaceFirst(r4, <<"D">>, PadField(valid, f.date, 0))
        r6  == ReplaceFirst(r5, <<"D","D">>, PadField(valid, f.date, 2))
        r7  == ReplaceFirst(r6, <<"H">>, PadField(valid, f.hours, 0))
        r8  == ReplaceFirst(r7, <<"H","H">>, PadField(valid, f.hours, 2))
        r9  == ReplaceFirst(r8, <<"m","m">>, PadField(valid, f.minutes, 2))
        r10 == ReplaceFirst(r9, <<"s","s">>, PadField(valid, f.seconds, 2))
    IN  ReplaceFirst(r10, <<"S","S","S">>, PadField(valid, f.ms, 3))

\* the chain of replace calls of formatCustom on the fields f
CustomOfFields(pattern, f, valid) ==
    LET r1  == ReplaceFirst(pattern, <<"Y","Y","Y","Y">>, PadField(valid, f.year, 0))
        r2  == ReplaceFirst(r1, <<"Y","Y">>, PadField(valid, JsRem(f.year, 100), 2))
        r3  == ReplaceFirst(r2, <<"M","M">>, PadField(valid, f.month, 2))
        r4  == ReplaceFirst(r3, <<"M">>, PadField(valid, f.month, 0))
        r5  == ReplaceFirst(r4, <<"D","D">>, PadField(valid, f.date, 2))
        r6  == ReplaceFirst(r5, <<"D">>, PadField(valid, f.date, 0))
        r7  == ReplaceFirst(r6, <<"H","H">>, PadField(valid, f.hours, 2))
        r8  == ReplaceFirst(r7, <<"H">>, PadField(valid, f.hours, 0))
        r9  == ReplaceFirst(r8, <<"m","m">>, PadField(valid, f.minutes, 2))
        r10 == ReplaceFirst(r9, <<"s","s">>, PadField(valid, f.seconds, 2))
    IN  ReplaceFirst(r10, <<"S","S","S">>, PadField(valid, f.ms, 3))

formatCustom(date, pattern, useUtc, e) ==
    CustomOfFields(pattern, Fields(date, useUtc, e), date.valid)

\* lines 144 to 150 of handleNow, on the parsed modifiers and the date
RenderNow(parsed, date, useUtc, e) ==
    IF parsed.hasCustom /\ parsed.customFormat # <<>>
    THEN StringVal(formatCustom(date, parsed.customFormat, useUtc, e))
    ELSE formatDate(date, IF parsed.format = "" THEN "iso" ELSE parsed.format,
                    useUtc, e)

\* lines 138 to 150 of handleNow; new Date() is the clock of the environment
NowOfParsed(parsed, e) ==
    RenderNow(parsed,
              IF parsed.offset.has THEN applyOffset(e.clock, parsed.offset, e)
              ELSE e.clock,
              parsed.timezone = "utc", e)

handleNow(modifiers, e) == NowOfParsed(parseModifiers(modifiers), e)

HexDigits == <<"0","1","2","3","4","5","6","7","8","9","a","b","c","d","e","f">>

UUID_TEMPLATE == <<"x","x","x","x","x","x","x","x","-","x","x","x","x","-","4","x","x","x","-","y","x","x","x","-","x","x","x","x","x","x","x","x","x","x","x","x">>

\* the callbacks of the replace made before position i: one for each x or y
UuidCallsBefore(i) ==
    Cardinality({j \in 1..(i - 1) : UUID_TEMPLATE[j] \in {"x", "y"}})

\* the callback of handleUuid on character c with the draw d
UuidDigitUnmasked(c, d) == HexDigits[Times16(d) + 1]

UuidDigit(c, d) ==
    IF c = "x" THEN HexDigits[Times16(d) + 1]
    ELSE HexDigits[((Times16(d) % 4) + 8) + 1]

\* 'xxxxxxxx-xxxx-4xxx-yxxx-xxxxxxxxxxxx'.replace(/[xy]/g, callback)
UuidOf(e, k) ==
    [i \in 1..Len(UUID_TEMPLATE) |->
        IF UUID_TEMPLATE[i] \in {"x", "y"}
        THEN UuidDigit(UUID_TEMPLATE[i], DrawAt(e, k + UuidCallsBefore(i)))
        ELSE UUID_TEMPLATE[i]]

handleUuid(e, k) == StringVal(UuidOf(e, k))

\* /^(\d+)-(\d+)$/
RangeMatches(mod) ==
    LET parts == Split(mod, "-")
    IN  /\ Len(parts) = 2
        /\ Len(parts[1]) > 0 /\ Len(parts[2]) > 0
        /\ \A i \in DOMAIN mod : mod[i] = "-" \/ IsDigit(mod[i])

\* the last modifier of range form, <<>> when there is none
LastRange(modifiers) ==
    IF \A i \in DOMAIN modifiers : ~RangeMatches(modifiers[i]) THEN <<>>
    ELSE modifiers[CHOOSE i \in DOMAIN modifiers :
                     /\ RangeMatches(modifiers[i])
                     /\ \A j \in DOMAIN modifiers : RangeMatches(modifiers[j]) => j <= i]

\* the first modifier of range form, <<>> when there is none
RECURSIVE FirstRange(_)
FirstRange(modifiers) ==
    IF Len(modifiers) = 0 THEN <<>>
    ELSE IF RangeMatches(Head(modifiers)) THEN Head(modifiers)
    ELSE FirstRange(Tail(modifiers))

\* the integer part of the binary logarithm of n >= 1
RECURSIVE Log2(_)
Log2(n) == IF n < 2 THEN 0 ELSE 1 + Log2(n \div 2)

\* the gap between an integer n >= 1 and the greatest double below it is
\* 2^(GapBelow(n) - 52): half the spacing of the doubles at a power of two
GapBelow(n) == IF 2 ^ Log2(n) = n THEN Log2(n) - 1 ELSE Log2(n)

\* Math.floor(r * span + min) for the greatest r below 1.  The product
\* rounds to the greatest double below span; the sum of it and min lies
\* below span + min by the gap below span, and when the gap below span + min
\* is wider, the sum is nearer to span + min (or half-way, and span + min the
\* even one) and rounds to it.  For a span below 1 the sum is still above
\* span + min
FloorOfTop(min, span) ==
    IF span < 1 THEN span + min
    ELSE IF GapBelow(span) < GapBelow(span + min) THEN span + min
    ELSE span + min - 1

\* Math.floor(Math.random() * (max - min + 1) + min); for a draw d / RandDen
\* the value is exact, the product being split so that no intermediate
\* exceeds the integers being computed with
FloorOfRandom(d, min, span) ==
    IF d = RandDen THEN FloorOfTop(min, span)
    ELSE d * (span \div RandDen) + ((d * (span % RandDen)) \div RandDen) + min

\* min and max after the loop over the modifiers, range being the first
\* modifier of range form
RangeOf(range) ==
    IF range = <<>> THEN [min |-> 0, max |-> 100]
    ELSE [min |-> parseInt(Split(range, "-")[1]), max |-> parseInt(Split(range, "-")[2])]

RandomIn(r, d) == StringVal(IntToString(FloorOfRandom(d, r.min, r.max - r.min + 1)))

handleRandom(modifiers, e, k) == RandomIn(RangeOf(FirstRange(modifiers)), DrawAt(e, k))

\* the own keys of BUILTIN_HANDLERS
BUILTIN_HANDLERS == { <<"n","o","w">>, <<"t","i","m","e","s","t","a","m","p">>, <<"u","u","i","d">>, <<"r","a","n","d","o","m">>, <<"r","a","n","d">> }

\* name in BUILTIN_HANDLERS: the own keys and those of Object.prototype
isBuiltinVariable(name) == name \in BUILTIN_HANDLERS \/ name \in ObjectPrototypeKeys

getBuiltinNames == << <<"n","o","w">>, <<"t","i","m","e","s","t","a","m","p">>, <<"u","u","i","d">>, <<"r","a","n","d","o","m">>, <<"r","a","n","d">> >>

\* Math.random calls made by the handler under a key
DrawsOf(key) ==
    IF key = <<"u","u","i","d">> THEN 31 ELSE IF key \in {<<"r","a","n","d","o","m">>, <<"r","a","n","d">>} THEN 1 ELSE 0

\* resolveBuiltin: BUILTIN_HANDLERS[name.toLowerCase()] is a handler, or the
\* member of Object.prototype under that key (the function Object under
\* constructor, which returns its argument; the prototype object itself, which
\* is not callable, under __proto__; the other members have a capital in their
\* names and are not found under a lower-cased key), or undefined
resolveBuiltin(name, modifiers, e, k) ==
    CASE toLowerCase(name) \in {<<"n","o","w">>, <<"t","i","m","e","s","t","a","m","p">>} -> handleNow(modifiers, e)
      [] toLowerCase(name) = <<"u","u","i","d">> -> handleUuid(e, k)
      [] toLowerCase(name) \in {<<"r","a","n","d","o","m">>, <<"r","a","n","d">>} -> handleRandom(modifiers, e, k)
      [] toLowerCase(name) = <<"c","o","n","s","t","r","u","c","t","o","r">> -> ArrayVal(modifiers)
      [] toLowerCase(name) = <<"_","_","p","r","o","t","o","_","_">> -> Thrown(<<"T","y","p","e","E","r","r","o","r">>)
      [] OTHER -> NullVal

\* a parser that drops the empty segments
ParseDroppingEmpty(expression) ==
    [name |-> Split(expression, ":")[1],
     modifiers |-> SelectSeq(Tail(Split(expression, ":")), LAMBDA m : m # <<>>)]

parseVariableExpression(expression) ==
    LET parts == Split(expression, ":")
    IN  [name |-> parts[1], modifiers |-> Tail(parts)]

(***************************************************************************)
(* substituteVariables                                                     *)
(***************************************************************************)
maxIterations == 10

\* the end of the longest run of [a-zA-Z0-9_] from position j: the first
\* position at or after j that holds no such character
NameEnd(s, j) ==
    Least({k \in j..(Len(s) + 1) : k = Len(s) + 1 \/ s[k] \notin NameChars})

\* the first "}" at or after position j, 0 when there is none
FirstClose(s, j) == IndexOfFrom(s, <<"}">>, j)

\* the rest of a pattern whose modifier part may be empty,
\* /\{([a-zA-Z_][a-zA-Z0-9_]*(?::[^}]*)?)\}/
MatchTailEmptyModifier(s, j) ==
    IF j > Len(s) THEN 0
    ELSE IF s[j] = "}" THEN j
    ELSE IF s[j] = ":" /\ FirstClose(s, j + 1) > 0 THEN FirstClose(s, j + 1)
    ELSE 0

\* the rest of the pattern after the name, which ends before position j: a
\* closing brace, or a colon, at least one character that is no closing brace,
\* and a closing brace
MatchTail(s, j) ==
    IF j > Len(s) THEN 0
    ELSE IF s[j] = "}" THEN j
    ELSE IF s[j] = ":" /\ FirstClose(s, j + 1) > j + 1 THEN FirstClose(s, j + 1)
    ELSE 0

\* pattern = /\{([a-zA-Z_][a-zA-Z0-9_]*(?::[^}]+)?)\}/ tried at position i:
\* the position of the closing brace of the match, 0 when there is no match
MatchEnd(s, i) ==
    IF i + 1 > Len(s) \/ s[i] # "{" THEN 0
    ELSE IF s[i + 1] \notin NameStartChars THEN 0
    ELSE MatchTail(s, NameEnd(s, i + 2))

\* a callback that looks the name up in the variable map before the builtins
ReplacerVariablesFirst(match, p, isBuiltin, resolved, vs) ==
    IF Len(p.modifiers) = 0 /\ InVariables(p.name, vs)
    THEN StringVal(GetVariable(p.name, vs))
    ELSE IF isBuiltin /\ resolved.t = "throw" THEN resolved
    ELSE IF isBuiltin /\ resolved.t # "null" THEN StringVal(ToString(resolved))
    ELSE StringVal(match)

\* lines 18 to 25 of the callback, on the parsed expression p and on what
\* resolveBuiltin gave when the name passed isBuiltinVariable
ReplacerOf(match, p, isBuiltin, resolved, vs) ==
    IF isBuiltin /\ resolved.t = "throw" THEN resolved
    ELSE IF isBuiltin /\ resolved.t # "null" THEN StringVal(ToString(resolved))
    ELSE IF Len(p.modifiers) = 0 /\ InVariables(p.name, vs)
         THEN StringVal(GetVariable(p.name, vs))
    ELSE StringVal(match)

\* the callback of result.replace (lines 13 to 26), called on a match with
\* the parsed text of its group, k draws of the random source being used so far
Replacer(match, p, vs, e, k) ==
    ReplacerOf(match, p, isBuiltinVariable(p.name),
               resolveBuiltin(p.name, p.modifiers, e, k), vs)

\* draws the callback used on a name
ReplacerDraws(name) ==
    IF isBuiltinVariable(name) THEN DrawsOf(toLowerCase(name)) ELSE 0

\* result.replace(pattern, callback) from position i on: the text produced,
\* whether a callback threw, the callbacks made and the draws used
RECURSIVE ReplaceFrom(_, _, _, _, _)
\* the match s[i..c] with its parsed expression p and the callback's result
ReplaceMatch(s, i, c, p, ret, vs, e, k) ==
    IF ret.t = "throw"
    THEN [out |-> <<>>, threw |-> TRUE, drawn |-> k,
          calls |-> << [match |-> SubSeq(s, i, c), name |-> p.name,
                        modifiers |-> p.modifiers, k |-> k, ret |-> ret] >>]
    ELSE [ReplaceFrom(s, c + 1, vs, e, k + ReplacerDraws(p.name)) EXCEPT
            !.out = ret.s \o @,
            !.calls = << [match |-> SubSeq(s, i, c), name |-> p.name,
                          modifiers |-> p.modifiers, k |-> k, ret |-> ret] >> \o @]

ReplaceParsed(s, i, c, p, vs, e, k) ==
    ReplaceMatch(s, i, c, p, Replacer(SubSeq(s, i, c), p, vs, e, k), vs, e, k)

\* the text up to the next match, which starts at m (0: there is none),
\* is copied
ReplaceAt(s, i, m, vs, e, k) ==
    IF m = 0
    THEN [out |-> SubSeq(s, i, Len(s)), threw |-> FALSE, calls |-> <<>>,
          drawn |-> k]
    ELSE [ReplaceParsed(s, m, MatchEnd(s, m),
                        parseVariableExpression(SubSeq(s, m + 1, MatchEnd(s, m) - 1)),
                        vs, e, k)
            EXCEPT !.out = SubSeq(s, i, m - 1) \o @]

\* the position of the first match at or after i, 0 when there is none
NextMatch(s, i) ==
    IF \A j \in i..Len(s) : MatchEnd(s, j) = 0 THEN 0
    ELSE Least({j \in i..Len(s) : MatchEnd(s, j) # 0})

ReplaceFrom(s, i, vs, e, k) == ReplaceAt(s, i, NextMatch(s, i), vs, e, k)

ReplaceAll(s, vs, e, k) == ReplaceFrom(s, 1, vs, e, k)

(***************************************************************************)
(* extractVariableNames and getMissingVariables                            *)
(***************************************************************************)
\* the group of the match that starts at position m: the name
MatchName(t, m) == SubSeq(t, m + 1, NameEnd(t, m + 2) - 1)

\* a loop body that pushes every name
PushEveryName(name) == <<name>>

\* if (!isBuiltinVariable(name)) names.push(name)
PushName(name) == IF isBuiltinVariable(name) THEN <<>> ELSE <<name>>

\* the loop over regex.exec(template): the names pushed from position i on,
\* the next match starting at m (0: there is none).  The regex differs from
\* the pattern of substituteVariables in its group only
RECURSIVE ExtractFrom(_, _)
ExtractAt(t, m) ==
    IF m = 0 THEN <<>>
    ELSE PushName(MatchName(t, m)) \o ExtractFrom(t, MatchEnd(t, m) + 1)

ExtractFrom(t, i) == ExtractAt(t, NextMatch(t, i))

extractVariableNames(t) == ExtractFrom(t, 1)

\* a filter that keeps the names found in the map
FilterDefined(needed, vs) == SelectSeq(needed, LAMBDA name : InVariables(name, vs))

\* needed.filter((name) => !(name in variables))
FilterMissing(needed, vs) == SelectSeq(needed, LAMBDA name : ~InVariables(name, vs))

getMissingVariables(t, vs) == FilterMissing(extractVariableNames(t), vs)

(***************************************************************************)
(* Inputs                                                                  *)
(***************************************************************************)
\* a template is the concatenation of at most MaxPieces pieces
MaxPieces == 3

\* whole expressions, expressions left open for a modifier or a closing
\* brace, modifiers, and literal text
Pieces ==
    { <<"{","a","}">>, <<"{","a">>, <<"{","n","o","w">>, <<"{","n","o","w",":">>, <<"{","u","u","i","d","}">>, <<"{","c","o","n","s","t","r","u","c","t","o","r">>,
      <<"{","_","_","p","r","o","t","o","_","_","}">>, <<":","u","t","c">>, <<":","+","9","9","9","9","9","9","9","9","9","y">>, <<"{">>, <<"}">>, <<"+">> }

RECURSIVE Flatten(_)
Flatten(ps) == IF Len(ps) = 0 THEN <<>> ELSE Head(ps) \o Flatten(Tail(ps))

\* templates that give the time builtin a custom format
FormatTemplates ==
    { <<"{","n","o","w",":","u","t","c",":","f","m","t",":">> \o p \o <<"}">> :
        p \in { <<>>, <<"Y","Y","Y","Y">>, <<"Y","Y","Y","Y","-","M","M","-","D","D">>, <<"D","D","/","M","M","/","Y","Y","Y","Y"," ","H","H","m","m">>, <<"d","a","t","e">>, <<"x">> } }

Templates ==
    UNION { {Flatten(ps) : ps \in [1..n -> Pieces]} : n \in 0..MaxPieces }
      \cup FormatTemplates

\* variable maps: none defined; brace-free values, one under a builtin's name;
\* two values that reference each other; a value that references itself
VariableMaps ==
    { <<>>,
      << <<<<"a">>, <<"b">>>>, <<<<"b">>, <<"1">>>>, <<<<"n","o","w">>, <<"V">>>>, <<<<"u","u","i","d">>, <<"V">>>>,
         <<<<"r","a","n","d">>, <<"V">>>> >>,
      << <<<<"a">>, <<"{","b","}">>>>, <<<<"b">>, <<"{","a","}">>>> >>,
      << <<<<"a">>, <<"+","{","a","}">>>> >> }

\* the variable map a1 = "{a2}", ..., ad = "on/1": references nested d deep
Chain(d) ==
    [i \in 1..d |->
       << <<"a">> \o NatToString(i),
          IF i < d THEN <<"{","a">> \o NatToString(i + 1) \o <<"}">> ELSE <<"o","n","/","1">> >>]

\* the template and the variables of the calls of substituteVariables: every
\* template with every map, and {a1} with the chains up to one deeper than
\* the cap
SubstituteCalls ==
    (Templates \X VariableMaps)
      \cup {<<<<"{","a","1","}">>, Chain(d)>> : d \in 1..(maxIterations + 1)}

\* the clock reading, the local zone's offset in minutes and the draws of
\* the random source: 2024-06-15T10:30:45.123Z in a zone at UTC, and
\* 2024-01-31T23:30:00.000Z in a zone two hours east of it
TestEnv ==
    [clock |-> [valid |-> TRUE, day |-> 19889, ms |-> 37845123], tz |-> 0,
     draws |-> <<0, RandDen - 1>>]

Envs ==
    { TestEnv,
      [clock |-> [valid |-> TRUE, day |-> 19753, ms |-> 84600000], tz |-> 120,
       draws |-> <<RandDen \div 2, 3, RandDen - 1>>] }

\* the environments whose random source repeats one draw or two
DrawEnvs ==
    {[TestEnv EXCEPT !.draws = ds] : ds \in [1..1 -> Draws] \cup [1..2 -> Draws]}

\* names and modifier lists given to isBuiltinVariable and resolveBuiltin
BuiltinNames ==
    { <<"n","o","w">>, <<"N","O","W">>, <<"N","o","w">>, <<"t","i","m","e","s","t","a","m","p">>, <<"u","u","i","d">>, <<"U","U","I","D">>, <<"r","a","n","d","o","m">>, <<"r","a","n","d">>,
      <<"R","a","n","d">>, <<"a">>, <<"d","e","v","i","c","e","_","i","d">>, <<"c","o","n","s","t","r","u","c","t","o","r">>, <<"_","_","p","r","o","t","o","_","_">>, <<"t","o","S","t","r","i","n","g">>,
      <<"v","a","l","u","e","O","f">>, <<"n","o","w","x">> }

ModifierLists ==
    { <<>>, <<<<"u","t","c">>>>, <<<<"u","t","c">>, <<"-","1","h">>, <<"d","a","t","e","t","i","m","e">>>>, <<<<"+","9","9","9","9","9","9","9","9","9","y">>>>,
      <<<<"f","m","t",":","Y","Y","Y","Y","-","M","M","-","D","D">>>>, <<<<"u","n","i","x">>>>, <<<<"1","-","1","0">>>>, <<<<"l","o","c","a","l">>, <<"d","a","t","e">>>>,
      <<<<"f","m","t",":">>, <<"d","a","t","e">>>>, <<<<"d","a","t","e">>, <<"f","m","t",":","H","H">>>>, <<<<"u","t","c">>, <<"f","m","t",":">>, <<"-","1","h">>>>,
      <<<<"-","1","h">>, <<"f","m","t",":","Y","Y","Y","Y","-","M","M","-","D","D"," ","H","H">>, <<"u","t","c">>, <<"u","n","i","x">>, <<"f","m","t",":","H","H",".","m","m">>>> }

\* templates given to extractVariableNames and getMissingVariables
NamePieces ==
    { <<"{","a","}">>, <<"{","b","}">>, <<"{","c">>, <<"{","n","o","w","}">>, <<"{","N","O","W","}">>, <<"{","c","o","n","s","t","r","u","c","t","o","r","}">>, <<":","u","t","c">>,
      <<"}">>, <<"+">> }

NameTemplates ==
    UNION { {Flatten(ps) : ps \in [1..n -> NamePieces]} : n \in 0..MaxPieces }

\* expressions given to parseVariableExpression
ExpressionPieces == { <<"n","o","w">>, <<"a">>, <<":","u","t","c">>, <<":">> }

Expressions ==
    UNION { {Flatten(ps) : ps \in [1..n -> ExpressionPieces]} : n \in 0..(MaxPieces + 1) }

\* the calls of resolveBuiltin: name, modifiers and environment
UuidCalls == {<<"u","u","i","d">>, <<"U","U","I","D">>} \X {<<>>, <<<<"u","t","c">>>>, <<<<"1","-","1","0">>>>} \X DrawEnvs

RandomCalls ==
    {<<"r","a","n","d","o","m">>, <<"r","a","n","d">>}
      \X {<<>>, <<<<"1","-","1","0">>>>, <<<<"2","-","5">>>>, <<<<"5","-","5">>>>, <<<<"u","t","c">>, <<"0","-","1">>>>,
          <<<<"x">>, <<"3","-","4">>, <<"7","-","9">>>>, <<<<"0","7","-","0","2","0">>>>, <<<<"7","-","9">>, <<"-","1">>, <<"3","-","4">>, <<"0","-","1">>>>}
      \X {e \in DrawEnvs : Len(e.draws) = 1}

\* the calls [utc, offset, preset] of the time builtin, at the two clocks
\* above and at 2024-01-31T10:30:45.123Z in a zone at UTC
OffsetCalls ==
    {<<"n","o","w">>, <<"t","i","m","e","s","t","a","m","p">>}
      \X {<<<<"u","t","c">>, o, f>> :
            o \in { <<"-","1","h">>, <<"+","3","0","m">>, <<"-","1","d">>, <<"+","1","w">>, <<"-","1","M">>, <<"+","1","y">>, <<"+","9","0","s">>,
                    <<"+","1","M">>, <<"+","1","3","M">>, <<"-","4","y">>, <<"+","0","d">> },
            f \in {<<"d","a","t","e">>, <<"d","a","t","e","t","i","m","e">>, <<"u","n","i","x">>}}
      \X (Envs \cup {[TestEnv EXCEPT !.clock.day = 19753]})

\* the calls of the time builtin with up to MaxPieces modifiers: time zones,
\* presets, offsets and tokens of no kind, repeated and in every order
TimeCalls ==
    {<<"n","o","w">>}
      \X (UNION { [1..n -> { <<"u","t","c">>, <<"l","o","c","a","l">>, <<"d","a","t","e">>, <<"U","N","I","X">>, <<"-","1","h">>, <<"+","1","M">>,
                            <<"+","1","H">>, <<"u","t","c","x">> }] : n \in 0..MaxPieces })
      \X {TestEnv}

\* the calls of the time builtin with a custom pattern of up to MaxPieces
\* tokens and literal characters
CustomCalls ==
    {<<"n","o","w">>}
      \X { << <<"f","m","t",":">> \o Flatten(ps) >> :
             ps \in UNION { [1..n -> { <<"Y","Y","Y","Y">>, <<"Y","Y">>, <<"M","M">>, <<"M">>, <<"D","D">>, <<"D">>, <<"H","H">>,
                                      <<"H">>, <<"m","m">>, <<"s","s">>, <<"S","S","S">>, <<"-">>, <<"x">> }] :
                             n \in 1..MaxPieces } }
      \X {TestEnv}

BuiltinCalls ==
    (BuiltinNames \X ModifierLists \X Envs) \cup UuidCalls \cup RandomCalls
      \cup OffsetCalls \cup TimeCalls \cup CustomCalls

(***************************************************************************)
(* JSON.stringify and JSON.parse.  A JSON text is kept as the sequence of  *)
(* its tokens; the white space between them, which the indent of 2 adds    *)
(* and JSON.parse skips, is left out.  An object is the sequence of its    *)
(* own properties [k, v] in insertion order, an array one of [k, v] with   *)
(* empty k.                                                                *)
(***************************************************************************)
JsVal(t, s, a) == [t |-> t, s |-> s, a |-> a]

\* QuoteJSONString without the quotes: the escapes of the quote, the
\* backslash and the line feed
Escape(s) ==
    Flatten([i \in DOMAIN s |->
               IF s[i] = "\"" THEN <<"\\", "\"">>
               ELSE IF s[i] = "\\" THEN <<"\\", "\\">>
               ELSE IF s[i] = "\n" THEN <<"\\", "n">>
               ELSE <<s[i]>>])

\* SerializeJSONProperty: a property whose value is undefined is left out
\* of an object and written as null in an array
RECURSIVE Stringify(_)
Stringify(v) ==
    CASE v.t = "string" -> << <<"\"">> \o Escape(v.s) \o <<"\"">> >>
      [] v.t \in {"number", "boolean"} -> << v.s >>
      [] v.t = "array" ->
           << <<"[">> >>
             \o Flatten([i \in DOMAIN v.a |->
                           (IF i > 1 THEN << <<",">> >> ELSE <<>>)
                             \o (IF v.a[i].v.t = "undefined" THEN << <<"n","u","l","l">> >>
                                 ELSE Stringify(v.a[i].v))])
             \o << <<"]">> >>
      [] v.t = "object" ->
           LET ms == SelectSeq(v.a, LAMBDA m : m.v.t # "undefined")
           IN  << <<"{">> >>
                 \o Flatten([i \in DOMAIN ms |->
                               (IF i > 1 THEN << <<",">> >> ELSE <<>>)
                                 \o << <<"\"">> \o Escape(ms[i].k) \o <<"\"">>, <<":">> >>
                                 \o Stringify(ms[i].v)])
                 \o << <<"}">> >>
      [] OTHER -> << <<"n","u","l","l">> >>

\* the string a string token stands for
RECURSIVE Unescape(_)
Unescape(l) ==
    IF Len(l) = 0 THEN <<>>
    ELSE IF l[1] = "\\"
         THEN << IF l[2] = "n" THEN "\n" ELSE l[2] >> \o Unescape(SubSeq(l, 3, Len(l)))
    ELSE << l[1] >> \o Unescape(Tail(l))

\* the value that starts at token i of text, and the token after it
RECURSIVE ParseValue(_, _)
RECURSIVE ParseMembers(_, _, _, _)
ParseValue(text, i) ==
    CASE text[i] = <<"{">> -> ParseMembers(text, i + 1, <<>>, TRUE)
      [] text[i] = <<"[">> -> ParseMembers(text, i + 1, <<>>, FALSE)
      [] text[i][1] = "\"" ->
           [v |-> StringVal(Unescape(SubSeq(text[i], 2, Len(text[i]) - 1))),
            next |-> i + 1]
      [] text[i] \in {<<"t","r","u","e">>, <<"f","a","l","s","e">>} ->
           [v |-> JsVal("boolean", text[i], <<>>), next |-> i + 1]
      [] text[i] = <<"n","u","l","l">> -> [v |-> NullVal, next |-> i + 1]
      [] OTHER -> [v |-> JsVal("number", text[i], <<>>), next |-> i + 1]

\* the members of an object or the elements of an array from token i on
ParseMembers(text, i, acc, isObject) ==
    IF text[i] \in {<<"}">>, <<"]">>}
    THEN [v |-> JsVal(IF isObject THEN "object" ELSE "array", <<>>, acc),
          next |-> i + 1]
    ELSE IF text[i] = <<",">> THEN ParseMembers(text, i + 1, acc, isObject)
    ELSE IF isObject
         THEN LET r == ParseValue(text, i + 2)
              IN  ParseMembers(text, r.next,
                               Append(acc, [k |-> Unescape(SubSeq(text[i], 2, Len(text[i]) - 1)),
                                            v |-> r.v]),
                               isObject)
    ELSE LET r == ParseValue(text, i)
         IN  ParseMembers(text, r.next, Append(acc, [k |-> <<>>, v |-> r.v]), isObject)

JSONparse(text) == ParseValue(text, 1).v

(***************************************************************************)
(* exportConnection and importConnection                                   *)
(***************************************************************************)
\* !filePath
FalsyNever(filePath) == FALSE

Falsy(filePath) ==
    filePath.t = "null" \/ (filePath.t = "string" /\ filePath.s = <<>>)

\* const { id, ...exportData } = connection
RestKeepingId(c) == c

RestWithoutId(c) == JsVal("object", <<>>, SelectSeq(c.a, LAMBDA m : m.k # <<"i","d">>))

\* connections given to exportConnection: the one of the tests with a
\* variable and a button that have an id of their own; one whose optional
\* fields are present and undefined and whose texts hold quotes, a backslash
\* and a line feed; one with credentials and two buttons
Connections ==
    { JsVal("object", <<>>,
        << [k |-> <<"i","d">>, v |-> StringVal(<<"t","e","s","t","-","u","u","i","d","-","1","2","3">>)],
           [k |-> <<"n","a","m","e">>, v |-> StringVal(<<"T","e","s","t"," ","C","o","n","n","e","c","t","i","o","n">>)],
           [k |-> <<"b","r","o","k","e","r","_","u","r","l">>, v |-> StringVal(<<"b","r","o","k","e","r",".","e","x","a","m","p","l","e",".","c","o","m">>)],
           [k |-> <<"p","o","r","t">>, v |-> JsVal("number", <<"1","8","8","3">>, <<>>)],
           [k |-> <<"c","l","i","e","n","t","_","i","d">>, v |-> StringVal(<<"t","e","s","t","-","c","l","i","e","n","t">>)],
           [k |-> <<"u","s","e","_","t","l","s">>, v |-> JsVal("boolean", <<"f","a","l","s","e">>, <<>>)],
           [k |-> <<"a","u","t","o","_","c","o","n","n","e","c","t">>, v |-> JsVal("boolean", <<"t","r","u","e">>, <<>>)],
           [k |-> <<"v","a","r","i","a","b","l","e","s">>,
            v |-> JsVal("object", <<>>,
                    << [k |-> <<"d","e","v","i","c","e","_","i","d">>, v |-> StringVal(<<"a","b","c","1","2","3">>)],
                       [k |-> <<"i","d">>, v |-> StringVal(<<"7">>)] >>)],
           [k |-> <<"b","u","t","t","o","n","s">>,
            v |-> ArrayVal(
                    << [k |-> <<>>,
                        v |-> JsVal("object", <<>>,
                                << [k |-> <<"i","d">>, v |-> StringVal(<<"b","t","n","-","1">>)],
                                   [k |-> <<"n","a","m","e">>, v |-> StringVal(<<"T","e","s","t"," ","B","u","t","t","o","n">>)],
                                   [k |-> <<"t","o","p","i","c">>, v |-> StringVal(<<"t","e","s","t","/","{","i","d","}">>)],
                                   [k |-> <<"p","a","y","l","o","a","d">>,
                                    v |-> StringVal(<<"{">> \o <<"\"">> \o <<"t","e","s","t">> \o <<"\"">>
                                                      \o <<":"," ","t","r","u","e","}">>)],
                                   [k |-> <<"q","o","s">>, v |-> StringVal(<<"a","t","m","o","s","t","o","n","c","e">>)],
                                   [k |-> <<"r","e","t","a","i","n">>, v |-> JsVal("boolean", <<"f","a","l","s","e">>, <<>>)],
                                   [k |-> <<"c","o","l","o","r">>, v |-> StringVal(<<"r","e","d">>)] >>)] >>)],
           [k |-> <<"s","u","b","s","c","r","i","p","t","i","o","n","s">>,
            v |-> ArrayVal(<< [k |-> <<>>, v |-> StringVal(<<"t","e","s","t","/","#">>)] >>)] >>),
      JsVal("object", <<>>,
        << [k |-> <<"i","d">>, v |-> StringVal(<<"c","2">>)],
           [k |-> <<"n","a","m","e">>, v |-> StringVal(<<"a">> \o <<"\\", "n", "\"">> \o <<"b">>)],
           [k |-> <<"b","r","o","k","e","r","_","u","r","l">>, v |-> StringVal(<<"l","o","c","a","l","h","o","s","t">>)],
           [k |-> <<"p","o","r","t">>, v |-> JsVal("number", <<"1","8","8","3">>, <<>>)],
           [k |-> <<"c","l","i","e","n","t","_","i","d">>, v |-> StringVal(<<>>)],
           [k |-> <<"u","s","e","r","n","a","m","e">>, v |-> JsVal("undefined", <<>>, <<>>)],
           [k |-> <<"p","a","s","s","w","o","r","d">>, v |-> JsVal("undefined", <<>>, <<>>)],
           [k |-> <<"u","s","e","_","t","l","s">>, v |-> JsVal("boolean", <<"f","a","l","s","e">>, <<>>)],
           [k |-> <<"a","u","t","o","_","c","o","n","n","e","c","t">>, v |-> JsVal("boolean", <<"f","a","l","s","e">>, <<>>)],
           [k |-> <<"v","a","r","i","a","b","l","e","s">>,
            v |-> JsVal("object", <<>>,
                    << [k |-> <<"l","i","n","e">>, v |-> StringVal(<<"1", "\n", "2", "\\">>)] >>)],
           [k |-> <<"b","u","t","t","o","n","s">>, v |-> ArrayVal(<<>>)],
           [k |-> <<"s","u","b","s","c","r","i","p","t","i","o","n","s">>, v |-> ArrayVal(<<>>)] >>),
      JsVal("object", <<>>,
        << [k |-> <<"i","d">>, v |-> StringVal(<<"c","3">>)],
           [k |-> <<"n","a","m","e">>, v |-> StringVal(<<"i","d">>)],
           [k |-> <<"b","r","o","k","e","r","_","u","r","l">>, v |-> StringVal(<<"m","q","t","t",".","e","x","a","m","p","l","e",".","c","o","m">>)],
           [k |-> <<"p","o","r","t">>, v |-> JsVal("number", <<"8","8","8","3">>, <<>>)],
           [k |-> <<"c","l","i","e","n","t","_","i","d">>, v |-> StringVal(<<"t","o","p","i","c","-","l","a","b">>)],
           [k |-> <<"u","s","e","r","n","a","m","e">>, v |-> StringVal(<<"u","s","e","r">>)],
           [k |-> <<"p","a","s","s","w","o","r","d">>, v |-> StringVal(<<"p","a","s","s">>)],
           [k |-> <<"u","s","e","_","t","l","s">>, v |-> JsVal("boolean", <<"t","r","u","e">>, <<>>)],
           [k |-> <<"a","u","t","o","_","c","o","n","n","e","c","t">>, v |-> JsVal("boolean", <<"t","r","u","e">>, <<>>)],
           [k |-> <<"v","a","r","i","a","b","l","e","s">>, v |-> JsVal("object", <<>>, <<>>)],
           [k |-> <<"b","u","t","t","o","n","s">>,
            v |-> ArrayVal(
                    << [k |-> <<>>,
                        v |-> JsVal("object", <<>>,
                                << [k |-> <<"i","d">>, v |-> StringVal(<<"b","1">>)],
                                   [k |-> <<"n","a","m","e">>, v |-> StringVal(<<"O","n">>)],
                                   [k |-> <<"t","o","p","i","c">>, v |-> StringVal(<<"l","i","g","h","t">>)],
                                   [k |-> <<"p","a","y","l","o","a","d">>, v |-> JsVal("undefined", <<>>, <<>>)],
                                   [k |-> <<"q","o","s">>, v |-> StringVal(<<"e","x","a","c","t","l","y","o","n","c","e">>)],
                                   [k |-> <<"r","e","t","a","i","n">>, v |-> JsVal("boolean", <<"t","r","u","e">>, <<>>)],
                                   [k |-> <<"m","u","l","t","i","S","e","n","d","I","n","t","e","r","v","a","l">>,
                                    v |-> JsVal("number", <<"2","5","0">>, <<>>)] >>)],
                       [k |-> <<>>,
                        v |-> JsVal("object", <<>>,
                                << [k |-> <<"i","d">>, v |-> StringVal(<<"b","2">>)],
                                   [k |-> <<"n","a","m","e">>, v |-> StringVal(<<"O","f","f">>)],
                                   [k |-> <<"t","o","p","i","c">>, v |-> StringVal(<<"l","i","g","h","t">>)],
                                   [k |-> <<"p","a","y","l","o","a","d">>, v |-> StringVal(<<"0">>)],
                                   [k |-> <<"q","o","s">>, v |-> StringVal(<<"a","t","l","e","a","s","t","o","n","c","e">>)],
                                   [k |-> <<"r","e","t","a","i","n">>, v |-> JsVal("boolean", <<"f","a","l","s","e">>, <<>>)] >>)] >>)],
           [k |-> <<"s","u","b","s","c","r","i","p","t","i","o","n","s">>,
            v |-> ArrayVal(<< [k |-> <<>>, v |-> StringVal(<<"l","i","g","h","t","/","#">>)],
                              [k |-> <<>>, v |-> StringVal(<<"+","/","s","t","a","t","u","s">>)] >>)] >>) }

\* what the save dialog resolves to: null when cancelled, or a path
SaveResults == { NullVal, StringVal(<<>>), StringVal(<<"/","p","a","t","h","/","t","o","/","f","i","l","e",".","j","s","o","n">>) }

\* what the open dialog resolves to: null when cancelled, a path, or the
\* paths of several files
OpenResults ==
    { NullVal, StringVal(<<>>), StringVal(<<"/","p","a","t","h","/","t","o","/","f","i","l","e",".","j","s","o","n">>),
      ArrayVal(<< <<"/","p","a","t","h","/","t","o","/","f","i","l","e",".","j","s","o","n">>, <<"/","p","a","t","h","/","t","o","/","b",".","j","s","o","n">> >>) }

(***************************************************************************)
(* AppProvider.  A connection is kept as its id, its auto_connect flag,    *)
(* the ids of its buttons and its variables; null and undefined as "".     *)
(* An operation in flight holds what its closure captured when it was      *)
(* called, and pc names the await it is suspended at.                      *)
(***************************************************************************)
MaxEvents == 1

\* the data after loadData: two connections, the first one active
LoadedData ==
    [connections |->
       << [id |-> "c1", auto_connect |-> TRUE, buttons |-> <<"b0">>, variables |-> "v0"],
          [id |-> "c2", auto_connect |-> FALSE, buttons |-> <<>>, variables |-> "v0"] >>,
     last |-> "c1"]

NoOp ==
    [kind |-> "", arg |-> "", pc |-> "idle", newData |-> LoadedData, target |-> "",
     auto |-> FALSE, activate |-> FALSE,
     before |-> [data |-> LoadedData, active |-> "", status |-> "", events |-> 0]]

\* the operations called and their arguments: a connection to add (its
\* auto_connect flag), a connection id, a button id, a variable map
OpCalls ==
    ({"addConnection"} \X {"auto", "manual"})
      \cup ({"switchConnection", "deleteConnection"} \X {"c1", "c2"})
      \cup ({"addButton"} \X {"b1", "b2"})
      \cup ({"updateVariables"} \X {"v1"})

\* data.connections.find((c) => c.id === id), with an id that is there
Find(d, id) == d.connections[CHOOSE i \in DOMAIN d.connections : d.connections[i].id = id]

Has(d, id) == \E i \in DOMAIN d.connections : d.connections[i].id = id

\* updateConnection: data.connections.map((c) => (c.id === connection.id ? connection : c))
Replaced(d, c) ==
    [d EXCEPT !.connections =
        [i \in DOMAIN d.connections |->
           IF d.connections[i].id = c.id THEN c ELSE d.connections[i]]]

\* deleteConnection, lines 149 to 151
Without(d, id) ==
    [connections |-> SelectSeq(d.connections, LAMBDA c : c.id # id),
     last |-> IF d.last # id THEN d.last
              ELSE IF SelectSeq(d.connections, LAMBDA c : c.id # id) = <<>> THEN ""
              ELSE SelectSeq(d.connections, LAMBDA c : c.id # id)[1].id]

\* the argument of saveData that the operation builds from the data d and
\* the active connection id that its closure holds
NewData(kind, arg, d, active) ==
    CASE kind = "addConnection" ->
           [connections |->
              Append(d.connections,
                     [id |-> "c3", auto_connect |-> arg = "auto", buttons |-> <<>>,
                      variables |-> "v0"]),
            last |-> "c3"]
      [] kind = "switchConnection" -> [d EXCEPT !.last = arg]
      [] kind = "deleteConnection" -> Without(d, arg)
      [] kind = "addButton" ->
           Replaced(d, [Find(d, active) EXCEPT !.buttons = Append(@, arg)])
      [] kind = "updateVariables" ->
           Replaced(d, [Find(d, active) EXCEPT !.variables = arg])

\* the connection id the operation sets active after its save, "" for null
Target(kind, arg, d) ==
    CASE kind = "addConnection" -> "c3"
      [] kind = "switchConnection" -> arg
      [] OTHER -> IF Without(d, arg).connections = <<>> THEN ""
                  ELSE Without(d, arg).connections[1].id

\* the operation as it is suspended at its first await
Called(kind, arg, d, active, status, n) ==
    [kind |-> kind, arg |-> arg,
     pc |-> IF kind \in {"addConnection", "switchConnection"} THEN "disconnect" ELSE "save",
     newData |-> NewData(kind, arg, d, active),
     target |-> Target(kind, arg, d),
     auto |-> CASE kind = "addConnection" -> arg = "auto"
                [] kind = "switchConnection" -> Has(d, arg) /\ Find(d, arg).auto_connect
                [] OTHER -> /\ Without(d, arg).connections # <<>>
                            /\ Without(d, arg).connections[1].auto_connect,
     activate |-> kind \in {"addConnection", "switchConnection"}
                    \/ (kind = "deleteConnection" /\ active = arg),
     before |-> [data |-> d, active |-> active, status |-> status, events |-> n]]

\* an operation is called: its synchronous part up to the first await.
\* switchConnection returns at once for the active connection, the
\* operations on the active connection when there is none
Call(s) ==
    /\ call = "AppProvider"
    /\ ops[s].pc = "idle"
    /\ \A r \in 1..(s - 1) : ops[r].pc # "idle"
    /\ \E c \in OpCalls :
          /\ ~(c[1] = "switchConnection" /\ c[2] = activeConnectionId)
          /\ c[1] \in {"addButton", "updateVariables"} => Has(data, activeConnectionId)
          /\ ops' = [ops EXCEPT ![s] = Called(c[1], c[2], data, activeConnectionId,
                                              connectionStatus, events)]
    /\ UNCHANGED <<data, saved, activeConnectionId, connectionStatus, error, events>>
    /\ UNCHANGED <<utilVars, cardVars, viewerVars>>

\* setActiveConnectionId and tryAutoConnect, up to the await of api.connect
Activated(st, s) ==
    [st EXCEPT !.active = st.ops[s].target,
               !.status = IF st.ops[s].auto THEN "connecting" ELSE @,
               !.ops[s].pc = IF st.ops[s].auto THEN "connect" ELSE "done"]

\* tryDisconnect after the await of api.disconnect, which may have rejected,
\* and what follows it up to the next await
Disconnected(st, s) ==
    IF st.ops[s].kind = "deleteConnection"
    THEN Activated([st EXCEPT !.status = "disconnected"], s)
    ELSE [st EXCEPT !.status = "disconnected", !.ops[s].pc = "save"]

\* saveData after the await of api.saveData, and what follows it up to the
\* next await
Saved(st, s, ok) ==
    IF ~ok THEN [st EXCEPT !.error = "Failed to save data", !.ops[s].pc = "rejected"]
    ELSE IF ~st.ops[s].activate
         THEN [st EXCEPT !.data = st.ops[s].newData, !.saved = st.ops[s].newData,
                         !.error = "", !.ops[s].pc = "done"]
    ELSE IF st.ops[s].kind = "deleteConnection"
         THEN [st EXCEPT !.data = st.ops[s].newData, !.saved = st.ops[s].newData,
                         !.error = "", !.ops[s].pc = "disconnect"]
    ELSE Activated([st EXCEPT !.data = st.ops[s].newData, !.saved = st.ops[s].newData,
                              !.error = ""], s)

\* tryAutoConnect after the await of api.connect
Connected(st, s, ok) ==
    [st EXCEPT !.status = IF ok THEN @ ELSE "error", !.ops[s].pc = "done"]

AppState ==
    [data |-> data, saved |-> saved, active |-> activeConnectionId,
     status |-> connectionStatus, error |-> error, ops |-> ops]

SetAppState(st) ==
    /\ data' = st.data /\ saved' = st.saved /\ activeConnectionId' = st.active
    /\ connectionStatus' = st.status /\ error' = st.error /\ ops' = st.ops

\* the promise an operation awaits is resolved (ok) or rejected, and the
\* operation runs up to its next await
Settle(s) ==
    /\ call = "AppProvider"
    /\ ops[s].pc \in {"disconnect", "save", "connect"}
    /\ \E ok \in BOOLEAN :
          SetAppState(CASE ops[s].pc = "disconnect" -> Disconnected(AppState, s)
                        [] ops[s].pc = "save" -> Saved(AppState, s, ok)
                        [] ops[s].pc = "connect" -> Connected(AppState, s, ok))
    /\ UNCHANGED events
    /\ UNCHANGED <<utilVars, cardVars, viewerVars>>

\* the listener of mqtt-status, lines 65 to 67
StatusEvent ==
    /\ call = "AppProvider"
    /\ events < MaxEvents
    /\ connectionStatus' \in {"connected", "disconnected", "error"}
    /\ events' = events + 1
    /\ UNCHANGED <<data, saved, activeConnectionId, error, ops>>
    /\ UNCHANGED <<utilVars, cardVars, viewerVars>>

(***************************************************************************)
(* ButtonCard.  A timer is the number window.setInterval returned, null is *)
(* 0.  The effects of the component run with the state change that is      *)
(* their dependency, in the order of the source.                           *)
(***************************************************************************)
MaxStarts == 2
MaxTimers == 2
MaxTicks == 1

Statuses == {"connected", "connecting", "disconnected", "error"}

\* the button as the editor saves it
Buttons == [multiSendEnabled : BOOLEAN, multiSendInterval : {500, 1000}]

\* window.setInterval: a number no scheduled timer has
SetInterval(scheduled) == CHOOSE n \in 1..(Cardinality(scheduled) + 1) : n \notin scheduled

CardState ==
    [isMultiSending |-> isMultiSending, intervalRef |-> intervalRef, timers |-> timers]

\* stopMultiSend, lines 47 to 54
stopMultiSend(st) ==
    [isMultiSending |-> FALSE, intervalRef |-> 0,
     timers |-> IF st.intervalRef # 0 THEN st.timers \ {st.intervalRef} ELSE st.timers]

\* the effect of lines 56 to 60, with the state st that was rendered
StatusEffect(st, status) ==
    IF status # "connected" /\ st.isMultiSending THEN stopMultiSend(st) ELSE st

\* the effect of lines 62 to 66
EnabledEffect(st, b) ==
    IF ~b.multiSendEnabled /\ st.isMultiSending THEN stopMultiSend(st) ELSE st

\* the effect of lines 68 to 83; rendered is the value of isMultiSending in
\* the render the effect belongs to
IntervalEffect(st, rendered) ==
    IF ~rendered \/ st.intervalRef = 0 THEN st
    ELSE [st EXCEPT !.intervalRef = SetInterval(st.timers \ {st.intervalRef}),
                    !.timers = (st.timers \ {st.intervalRef})
                                 \cup {SetInterval(st.timers \ {st.intervalRef})}]

SetCardState(st) ==
    /\ isMultiSending' = st.isMultiSending
    /\ intervalRef' = st.intervalRef
    /\ timers' = st.timers

\* the effects that depend on isMultiSending, after it was set to v
AfterSet(st, v) ==
    IF v = isMultiSending THEN st
    ELSE IntervalEffect(EnabledEffect(StatusEffect(st, connectionStatus), button), v)

\* handlePublish, up to the first await
ClickPublish ==
    /\ call = "ButtonCard"
    /\ ~publishing /\ connectionStatus = "connected"
    /\ IF ~button.multiSendEnabled
       THEN /\ publishing' = TRUE
            /\ UNCHANGED <<isMultiSending, intervalRef, timers, starts>>
       ELSE IF isMultiSending
       THEN /\ SetCardState(stopMultiSend(CardState))
            /\ UNCHANGED <<publishing, starts>>
       ELSE /\ starts < MaxStarts
            /\ starts' = starts + 1
            /\ SetCardState(AfterSet([CardState EXCEPT !.isMultiSending = TRUE], TRUE))
            /\ UNCHANGED publishing
    /\ UNCHANGED <<button, ticks, connectionStatus>>
    /\ UNCHANGED <<utilVars, providerVars, viewerVars>>

\* singlePublish after the await of publishButton
SinglePublishDone ==
    /\ call = "ButtonCard"
    /\ publishing
    /\ publishing' = FALSE
    /\ UNCHANGED <<button, isMultiSending, intervalRef, timers, starts, ticks, connectionStatus>>
    /\ UNCHANGED <<utilVars, providerVars, viewerVars>>

\* startMultiSend after the await of its first publishOnce, which resolved
\* (ok) or was rejected
FirstPublishDone ==
    /\ call = "ButtonCard"
    /\ starts > 0
    /\ starts' = starts - 1
    /\ \E ok \in BOOLEAN :
          IF ok
          THEN /\ Cardinality(timers) < MaxTimers
               /\ intervalRef' = SetInterval(timers)
               /\ timers' = timers \cup {SetInterval(timers)}
               /\ UNCHANGED isMultiSending
          ELSE SetCardState(AfterSet(stopMultiSend(CardState), FALSE))
    /\ UNCHANGED <<button, publishing, ticks, connectionStatus>>
    /\ UNCHANGED <<utilVars, providerVars, viewerVars>>

\* a scheduled timer fires: publishOnce up to its await
Tick ==
    /\ call = "ButtonCard"
    /\ timers # {}
    /\ ticks < MaxTicks
    /\ ticks' = ticks + 1
    /\ UNCHANGED <<button, isMultiSending, publishing, intervalRef, timers, starts,
                   connectionStatus>>
    /\ UNCHANGED <<utilVars, providerVars, viewerVars>>

\* publishOnce of a timer after its await: stopMultiSend when the publish
\* was rejected
TickDone ==
    /\ call = "ButtonCard"
    /\ ticks > 0
    /\ ticks' = ticks - 1
    /\ \E ok \in BOOLEAN :
          IF ok THEN UNCHANGED <<isMultiSending, intervalRef, timers>>
          ELSE SetCardState(AfterSet(stopMultiSend(CardState), FALSE))
    /\ UNCHANGED <<button, publishing, starts, connectionStatus>>
    /\ UNCHANGED <<utilVars, providerVars, viewerVars>>

\* the connection status changes and the card renders with it
CardStatus ==
    /\ call = "ButtonCard"
    /\ \E s \in Statuses \ {connectionStatus} :
          /\ connectionStatus' = s
          /\ SetCardState(StatusEffect(CardState, s))
    /\ UNCHANGED <<button, publishing, starts, ticks>>
    /\ UNCHANGED <<utilVars, providerVars, viewerVars>>

\* the button is edited and the card renders with the new button
EditButton ==
    /\ call = "ButtonCard"
    /\ \E b \in Buttons \ {button} :
          /\ button' = b
          /\ SetCardState(IntervalEffect(EnabledEffect(CardState, b), isMultiSending))
    /\ UNCHANGED <<publishing, starts, ticks, connectionStatus>>
    /\ UNCHANGED <<utilVars, providerVars, viewerVars>>

(***************************************************************************)
(* MessageViewer.  A message is the number of its arrival, counted from    *)
(* the mount of the viewer: the messages that arrived before it have the   *)
(* numbers up to 0.  The backend that answers get_messages and             *)
(* clear_messages is not part of these sources: it is taken to hold the    *)
(* messages that arrived since the last clear, the newest MaxMessages of   *)
(* them.                                                                   *)
(***************************************************************************)
MaxMessages == 100
MaxArrivals == 3
MaxLoads == 1
MaxClears == 1

\* the numbers of messages the backend holds when the viewer is mounted
Backlogs == {0, 2, 99, 100}

\* the updater of setMessages in the listener of mqtt-message
Pushed(prev, m) ==
    IF Len(prev) + 1 > MaxMessages THEN Tail(Append(prev, m)) ELSE Append(prev, m)

\* the effect of lines 37 to 63 with the status it is rendered with: the
\* list is emptied, or api.getMessages is called; its promise is not
\* cancelled by the cleanup
ConnectionEffect(status) ==
    IF status # "connected"
    THEN /\ messages' = <<>>
         /\ UNCHANGED loads
    ELSE /\ Cardinality(loads \cup {backlog}) <= MaxLoads
         /\ loads' = loads \cup {backlog}
         /\ UNCHANGED messages

\* the connection status changes and the viewer renders with it
ViewerStatus ==
    /\ call = "MessageViewer"
    /\ \E s \in Statuses \ {connectionStatus} :
          /\ connectionStatus' = s
          /\ ConnectionEffect(s)
    /\ UNCHANGED <<backlog, arrived, clears>>
    /\ UNCHANGED <<utilVars, providerVars, cardVars>>

\* the saved subscriptions of the active connection change
SubscriptionsChange ==
    /\ call = "MessageViewer"
    /\ ConnectionEffect(connectionStatus)
    /\ UNCHANGED <<connectionStatus, backlog, arrived, clears>>
    /\ UNCHANGED <<utilVars, providerVars, cardVars>>

\* the promise of api.getMessages is resolved with what the backend held
\* (then setMessages), or rejected
LoadDone ==
    /\ call = "MessageViewer"
    /\ \E l \in loads :
          /\ loads' = loads \ {l}
          /\ \E ok \in BOOLEAN :
                IF ok THEN messages' = l ELSE UNCHANGED messages
    /\ UNCHANGED <<connectionStatus, backlog, arrived, clears>>
    /\ UNCHANGED <<utilVars, providerVars, cardVars>>

\* a message arrives while the broker is connected: the backend keeps it
\* and the listener of mqtt-message appends it
MessageEvent ==
    /\ call = "MessageViewer"
    /\ connectionStatus = "connected"
    /\ arrived < MaxArrivals
    /\ arrived' = arrived + 1
    /\ backlog' = Pushed(backlog, arrived + 1)
    /\ messages' = Pushed(messages, arrived + 1)
    /\ UNCHANGED <<connectionStatus, loads, clears>>
    /\ UNCHANGED <<utilVars, providerVars, cardVars>>

\* handleClear up to its await
ClickClear ==
    /\ call = "MessageViewer"
    /\ clears < MaxClears
    /\ clears' = clears + 1
    /\ UNCHANGED <<connectionStatus, messages, loads, backlog, arrived>>
    /\ UNCHANGED <<utilVars, providerVars, cardVars>>

\* handleClear after the await of api.clearMessages
ClearDone ==
    /\ call = "MessageViewer"
    /\ clears > 0
    /\ clears' = clears - 1
    /\ \E ok \in BOOLEAN :
          IF ok THEN backlog' = <<>> /\ messages' = <<>>
          ELSE UNCHANGED <<backlog, messages>>
    /\ UNCHANGED <<connectionStatus, loads, arrived>>
    /\ UNCHANGED <<utilVars, providerVars, cardVars>>

(***************************************************************************)
(* The calls                                                               *)
(***************************************************************************)
\* the variables of the calls that are not being made
IdleSubstitute ==
    /\ result = <<>> /\ prevResult = <<>> /\ iterations = 0 /\ calls = <<>>

IdleBuiltin ==
    /\ bName = <<>> /\ bModifiers = <<>> /\ bMember = FALSE /\ bResolved = NullVal

IdleNames == names = <<>> /\ missing = <<>>

IdleParse == pExpression = <<>> /\ pParsed = <<>>

IdleProvider ==
    /\ data = LoadedData /\ saved = LoadedData /\ activeConnectionId = ""
    /\ error = "" /\ ops = <<>> /\ events = 0

IdleApp == IdleProvider /\ connectionStatus = ""

IdleCard ==
    /\ button = [multiSendEnabled |-> FALSE, multiSendInterval |-> 0]
    /\ isMultiSending = FALSE /\ publishing = FALSE
    /\ intervalRef = 0 /\ timers = {} /\ starts = 0 /\ ticks = 0

IdleViewer ==
    /\ messages = <<>> /\ loads = {} /\ backlog = <<>> /\ arrived = 0 /\ clears = 0

IdleUi == IdleApp /\ IdleCard /\ IdleViewer

IdleApi ==
    /\ connection = <<>> /\ dialog = NullVal /\ file = <<>> /\ io = <<>>
    /\ returned = NullVal

\* substituteVariables(template, variables), lines 4 to 9
InitSubstitute ==
    /\ call = "substituteVariables"
    /\ \E c \in SubstituteCalls : template = c[1] /\ variables = c[2]
    /\ env = TestEnv
    /\ result = template
    /\ prevResult = <<>>
    /\ iterations = 0
    /\ drawn = 0
    /\ pc = "loop"
    /\ calls = <<>>
    /\ bName = <<>> /\ bModifiers = <<>> /\ bMember = FALSE /\ bResolved = NullVal
    /\ IdleNames /\ IdleParse /\ IdleApi /\ IdleUi

\* isBuiltinVariable(name) and then resolveBuiltin(name, modifiers)
InitBuiltin ==
    /\ call = "resolveBuiltin"
    /\ \E c \in BuiltinCalls : bName = c[1] /\ bModifiers = c[2] /\ env = c[3]
    /\ bMember = FALSE
    /\ bResolved = NullVal
    /\ pc = "member"
    /\ drawn = 0
    /\ template = <<>> /\ variables = <<>> /\ result = <<>> /\ prevResult = <<>>
    /\ iterations = 0 /\ calls = <<>>
    /\ IdleNames /\ IdleParse /\ IdleApi /\ IdleUi

\* getMissingVariables(template, variables)
InitMissing ==
    /\ call = "getMissingVariables"
    /\ template \in NameTemplates
    /\ variables \in VariableMaps
    /\ env = TestEnv
    /\ pc = "extract"
    /\ drawn = 0
    /\ IdleSubstitute /\ IdleBuiltin /\ IdleNames /\ IdleParse /\ IdleApi /\ IdleUi

\* parseVariableExpression(expression)
InitParse ==
    /\ call = "parseVariableExpression"
    /\ pExpression \in Expressions
    /\ pParsed = <<>>
    /\ template = <<>> /\ variables = <<>> /\ env = TestEnv
    /\ pc = "parse"
    /\ drawn = 0
    /\ IdleSubstitute /\ IdleBuiltin /\ IdleNames /\ IdleApi /\ IdleUi

\* exportConnection(connection), and importConnection() after it
InitExport ==
    /\ call = "exportConnection"
    /\ connection \in Connections
    /\ dialog = NullVal /\ file = <<>> /\ io = <<>> /\ returned = NullVal
    /\ template = <<>> /\ variables = <<>> /\ env = TestEnv
    /\ pc = "save"
    /\ drawn = 0
    /\ IdleSubstitute /\ IdleBuiltin /\ IdleNames /\ IdleParse /\ IdleUi

\* the variables of the utilities while a component runs
IdleUtil ==
    /\ template = <<>> /\ variables = <<>> /\ env = TestEnv /\ drawn = 0
    /\ IdleSubstitute /\ IdleBuiltin /\ IdleNames /\ IdleParse /\ IdleApi

\* AppProvider after loadData, the broker connected or not
InitApp ==
    /\ call = "AppProvider" /\ pc = "run"
    /\ data = LoadedData /\ saved = LoadedData
    /\ activeConnectionId = "c1"
    /\ connectionStatus \in {"connected", "disconnected"}
    /\ error = ""
    /\ ops = [s \in 1..2 |-> NoOp]
    /\ events = 0
    /\ IdleUtil /\ IdleCard /\ IdleViewer

\* a card that was mounted, the broker connected or not
InitCard ==
    /\ call = "ButtonCard" /\ pc = "run"
    /\ button \in Buttons
    /\ isMultiSending = FALSE /\ publishing = FALSE
    /\ intervalRef = 0 /\ timers = {} /\ starts = 0 /\ ticks = 0
    /\ connectionStatus \in {"connected", "disconnected"}
    /\ IdleUtil /\ IdleProvider /\ IdleViewer

\* a viewer that was mounted and has run its effect once
InitViewer ==
    /\ call = "MessageViewer" /\ pc = "run"
    /\ connectionStatus \in {"connected", "disconnected"}
    /\ \E n \in Backlogs :
          /\ backlog = [i \in 1..n |-> i - n]
          /\ loads = IF connectionStatus = "connected" THEN {[i \in 1..n |-> i - n]} ELSE {}
    /\ messages = <<>> /\ arrived = 0 /\ clears = 0
    /\ IdleUtil /\ IdleProvider /\ IdleCard

Init ==
    \/ InitSubstitute \/ InitBuiltin \/ InitMissing \/ InitParse \/ InitExport
    \/ InitApp \/ InitCard \/ InitViewer

\* a loop condition without the cap on the passes
LoopConditionUncapped == result # prevResult

\* the condition of a loop capped one pass earlier
LoopConditionNinePasses == result # prevResult /\ iterations < maxIterations - 1

\* the condition of a loop that makes one pass
LoopConditionOnePass == iterations < 1

\* the condition of the while loop, line 11
LoopCondition == result # prevResult /\ iterations < maxIterations

\* one turn of the loop, lines 12 to 27, r being what result.replace gives;
\* when the callback throws, the exception leaves substituteVariables before
\* result is assigned
PassOf(r) ==
    /\ prevResult' = result
    /\ calls' = r.calls
    /\ drawn' = r.drawn
    /\ IF r.threw
       THEN pc' = "threw" /\ UNCHANGED <<result, iterations>>
       ELSE /\ result' = r.out
            /\ iterations' = iterations + 1
            /\ pc' = pc

Pass ==
    /\ call = "substituteVariables" /\ pc = "loop"
    /\ LoopCondition
    /\ PassOf(ReplaceAll(result, variables, env, drawn))
    /\ UNCHANGED <<uiVars, namesVars, parseVars, apiVars>>
    /\ UNCHANGED <<call, template, variables, env, bName, bModifiers,
                   bMember, bResolved>>

\* return result, line 30
Return ==
    /\ call = "substituteVariables" /\ pc = "loop"
    /\ ~LoopCondition
    /\ pc' = "done"
    /\ UNCHANGED <<uiVars, namesVars, parseVars, apiVars>>
    /\ UNCHANGED <<call, template, variables, env, result, prevResult,
                   iterations, drawn, calls, bName, bModifiers, bMember, bResolved>>

IsBuiltinCall ==
    /\ call = "resolveBuiltin" /\ pc = "member"
    /\ bMember' = isBuiltinVariable(bName)
    /\ pc' = "resolve"
    /\ UNCHANGED <<uiVars, namesVars, parseVars, apiVars>>
    /\ UNCHANGED <<call, template, variables, env, result, prevResult,
                   iterations, drawn, calls, bName, bModifiers, bResolved>>

ResolveCall ==
    /\ call = "resolveBuiltin" /\ pc = "resolve"
    /\ bResolved' = resolveBuiltin(bName, bModifiers, env, drawn)
    /\ drawn' = drawn + DrawsOf(toLowerCase(bName))
    /\ pc' = IF bResolved'.t = "throw" THEN "threw" ELSE "done"
    /\ UNCHANGED <<uiVars, namesVars, parseVars, apiVars>>
    /\ UNCHANGED <<call, template, variables, env, result, prevResult,
                   iterations, calls, bName, bModifiers, bMember>>

\* const needed = extractVariableNames(template), line 47
ExtractCall ==
    /\ call = "getMissingVariables" /\ pc = "extract"
    /\ names' = extractVariableNames(template)
    /\ pc' = "filter"
    /\ UNCHANGED <<uiVars, parseVars, apiVars, missing>>
    /\ UNCHANGED <<call, template, variables, env, result, prevResult,
                   iterations, drawn, calls, bName, bModifiers, bMember, bResolved>>

\* return needed.filter(...), line 48
MissingCall ==
    /\ call = "getMissingVariables" /\ pc = "filter"
    /\ missing' = FilterMissing(names, variables)
    /\ pc' = "done"
    /\ UNCHANGED <<uiVars, parseVars, apiVars, names>>
    /\ UNCHANGED <<call, template, variables, env, result, prevResult,
                   iterations, drawn, calls, bName, bModifiers, bMember, bResolved>>

ParseCall ==
    /\ call = "parseVariableExpression" /\ pc = "parse"
    /\ pParsed' = parseVariableExpression(pExpression)
    /\ pc' = "done"
    /\ UNCHANGED <<uiVars, namesVars, apiVars, pExpression>>
    /\ UNCHANGED <<call, template, variables, env, result, prevResult,
                   iterations, drawn, calls, bName, bModifiers, bMember, bResolved>>

\* exportConnection, lines 57 to 68: the file at the chosen path is written
\* unless the dialog gave no path
ExportCall ==
    /\ call = "exportConnection" /\ pc = "save"
    /\ dialog' \in SaveResults
    /\ IF Falsy(dialog')
       THEN /\ returned' = JsVal("boolean", <<"f","a","l","s","e">>, <<>>)
            /\ UNCHANGED <<file, io>>
       ELSE /\ file' = Stringify(RestWithoutId(connection))
            /\ io' = Append(io, "writeTextFile")
            /\ returned' = JsVal("boolean", <<"t","r","u","e">>, <<>>)
    /\ call' = "importConnection"
    /\ pc' = "open"
    /\ UNCHANGED <<uiVars, namesVars, parseVars, connection>>
    /\ UNCHANGED <<template, variables, env, result, prevResult,
                   iterations, drawn, calls, bName, bModifiers, bMember, bResolved>>

\* importConnection, lines 70 to 79; the open dialog gives the path of a
\* file that exists
ImportCall ==
    /\ call = "importConnection" /\ pc = "open"
    /\ dialog' \in OpenResults
    /\ IF Falsy(dialog') \/ dialog'.t # "string"
       THEN /\ returned' = NullVal
            /\ UNCHANGED io
       ELSE /\ file # <<>>
            /\ io' = Append(io, "readTextFile")
            /\ returned' = JSONparse(file)
    /\ pc' = "done"
    /\ UNCHANGED <<uiVars, namesVars, parseVars, connection, file>>
    /\ UNCHANGED <<call, template, variables, env, result, prevResult,
                   iterations, drawn, calls, bName, bModifiers, bMember, bResolved>>

Next ==
    \/ Pass \/ Return
    \/ IsBuiltinCall \/ ResolveCall
    \/ ExtractCall \/ MissingCall
    \/ ParseCall
    \/ ExportCall \/ ImportCall
    \/ \E s \in 1..2 : Call(s)
    \/ \E s \in 1..2 : Settle(s)
    \/ StatusEvent
    \/ ClickPublish \/ SinglePublishDone \/ FirstPublishDone
    \/ Tick \/ TickDone \/ CardStatus \/ EditButton
    \/ ViewerStatus \/ SubscriptionsChange \/ LoadDone
    \/ MessageEvent \/ ClickClear \/ ClearDone

Spec == Init /\ [][Next]_vars

(***************************************************************************)
(* Properties of substituteVariables                                       *)
(***************************************************************************)
Returned == call = "substituteVariables" /\ pc = "done"

\* the callbacks of the latest pass
Callbacks == {calls[i] : i \in DOMAIN calls}

\* C1: substituteVariables never throws; for every template and every
\* variable map the call returns a string.
C1_NeverThrows == call = "substituteVariables" => pc # "threw"

\* C2: the pass counter never exceeds 10, whatever the template and the
\* variable map (values that reference each other or themselves included),
\* and no pass is executed for the empty template.
C2_AtMostTenPasses ==
    call = "substituteVariables" =>
        /\ iterations <= maxIterations
        /\ template = <<>> => iterations = 0

\* a call returned after ten passes, the values of the map referencing each
\* other cyclically
C2_Witness ==
    /\ Returned /\ iterations = maxIterations
    /\ variables = << <<<<"a">>, <<"{","b","}">>>>, <<<<"b">>, <<"{","a","}">>>> >>
    /\ result # prevResult

\* t[i..j] is a brace-delimited expression: an opening brace, a name that
\* starts with a letter or an underscore, possibly a colon and a non-empty
\* modifier text free of closing braces, and a closing brace
IsExpression(t, i, j) ==
    /\ t[i] = "{" /\ t[j] = "}" /\ j > i + 1
    /\ t[i + 1] \in NameStartChars
    /\ \E k \in (i + 1)..(j - 1) :
          /\ \A m \in (i + 1)..k : t[m] \in NameChars
          /\ \/ k = j - 1
             \/ /\ k + 2 <= j - 1
                /\ t[k + 1] = ":"
                /\ \A m \in (k + 2)..(j - 1) : t[m] # "}"

NoExpression(t) == \A i \in DOMAIN t : \A j \in DOMAIN t : ~IsExpression(t, i, j)

\* C3: for a template that contains no brace-delimited expression,
\* substituteVariables returns the template unchanged, whatever the map.
C3_NoExpressionUnchanged == Returned /\ NoExpression(template) => result = template

\* a call returned on a template with braces, a name and a colon in it but no
\* expression, under a map that defines the name
C3_Witness ==
    /\ Returned /\ NoExpression(template)
    /\ Contains(template, <<"{","n","o","w",":">>) /\ Contains(template, <<"}">>)
    /\ variables # <<>>

\* C4: an expression {name} without modifiers whose name is none of the five
\* builtins and no key defined in the variable map is left exactly as
\* written: the callback, when it returns, returns the matched text.
C4_UnknownLeftVerbatim ==
    \A c \in Callbacks :
        /\ c.ret.t # "throw"
        /\ Len(c.modifiers) = 0
        /\ c.name \notin BUILTIN_HANDLERS
        /\ c.name \notin OwnKeys(variables)
        => c.ret = StringVal(c.match)

\* C5: an expression whose name is one of the five builtins, with or without
\* modifiers, is replaced by what the builtin resolver gives; the value of
\* the variable map under that name is not used.
C5_BuiltinsShadowVariables ==
    \A c \in Callbacks :
        c.name \in BUILTIN_HANDLERS =>
            c.ret = resolveBuiltin(c.name, c.modifiers, env, c.k)

\* a builtin expression replaced while the map defines its name with another
\* value
C5_Witness ==
    \E c \in Callbacks :
        /\ c.name \in BUILTIN_HANDLERS /\ c.name \in OwnKeys(variables)
        /\ c.ret.t = "string"
        /\ c.ret.s # GetVariable(c.name, variables)

\* C6: an expression with modifiers whose name is no builtin is left
\* verbatim, and a name that is no builtin is substituted only when it has
\* no modifiers and is a key of the variable map (of the callbacks that
\* return).
C6_ModifiersBuiltinOnly ==
    \A c \in Callbacks :
        c.ret.t # "throw" /\ c.name \notin BUILTIN_HANDLERS =>
            /\ Len(c.modifiers) > 0 => c.ret = StringVal(c.match)
            /\ c.ret # StringVal(c.match) =>
                  Len(c.modifiers) = 0 /\ c.name \in OwnKeys(variables)

\* the positions of t from i on that lie in an expression matched in t
RECURSIVE MatchedFrom(_, _)
MatchedAt(t, m) ==
    IF m = 0 THEN {} ELSE (m..MatchEnd(t, m)) \cup MatchedFrom(t, MatchEnd(t, m) + 1)

MatchedFrom(t, i) == MatchedAt(t, NextMatch(t, i))

\* the characters of t at the positions ps, in their order
Restrict(t, ps) ==
    [n \in 1..Cardinality(ps) |->
        t[CHOOSE p \in ps : Cardinality({q \in ps : q <= p}) = n]]

\* the text of t outside the expressions matched in it
LiteralText(t) == Restrict(t, (DOMAIN t) \ MatchedFrom(t, 1))

\* the characters of a from position i on appear in b from position j on, in
\* the same order
RECURSIVE SubsequenceFrom(_, _, _, _)
SubsequenceAt(a, i, b, n) == n # 0 /\ SubsequenceFrom(a, i + 1, b, n + 1)

SubsequenceFrom(a, i, b, j) ==
    i > Len(a) \/ SubsequenceAt(a, i, b, IndexOfFrom(b, <<a[i]>>, j))

\* C7: the characters of the template outside the expressions matched in it
\* appear unchanged and in the same order in the result.
C7_LiteralTextPreserved ==
    Returned => SubsequenceFrom(LiteralText(template), 1, result, 1)

\* the keys of the map that are no builtin names
UserKeys(m) == {k \in OwnKeys(m) : ~isBuiltinVariable(k)}

BraceFree(m) == \A i \in DOMAIN m : ~Contains(m[i][2], <<"{">>) /\ ~Contains(m[i][2], <<"}">>)

\* C8: every occurrence of the text {name} in the template, name being a
\* key of a map of brace-free values and no builtin, is replaced: none is
\* left in the result.
C8_EveryOccurrenceReplaced ==
    Returned /\ BraceFree(variables) =>
        \A n \in UserKeys(variables) :
            Contains(template, <<"{">> \o n \o <<"}">>) => ~Contains(result, <<"{">> \o n \o <<"}">>)

(***************************************************************************)
(* Properties of the builtin registry                                      *)
(***************************************************************************)
Resolved == call = "resolveBuiltin" /\ pc \in {"done", "threw"}

ResolvedReturned == call = "resolveBuiltin" /\ pc = "done"

\* C9: isBuiltinVariable(name) is true exactly when resolveBuiltin(name,
\* modifiers) returns a value other than null, names that differ from a
\* builtin in letter case included.
C9_MembershipMirrorsResolution ==
    ResolvedReturned => (bMember <=> bResolved.t # "null")

\* C10: resolveBuiltin returns null, without failing, for a name whose
\* lower-case form is none of now, timestamp, uuid, random, rand, and a string
\* for every name whose lower-case form is one of them.
C10_NullOutsideStringInside ==
    Resolved =>
        IF toLowerCase(bName) \in BUILTIN_HANDLERS
        THEN bResolved.t = "string"
        ELSE bResolved.t = "null"

(***************************************************************************)
(* Properties of extractVariableNames and getMissingVariables              *)
(***************************************************************************)
Extracted == call = "getMissingVariables" /\ pc \in {"filter", "done"}

\* the positions at which the expressions of t start, from position i on
RECURSIVE StartsFrom(_, _)
StartsAt(t, m) == IF m = 0 THEN {} ELSE {m} \cup StartsFrom(t, MatchEnd(t, m) + 1)

StartsFrom(t, i) == StartsAt(t, NextMatch(t, i))

\* those whose name is not recognized as a builtin
UserStarts(t) == {m \in StartsFrom(t, 1) : ~isBuiltinVariable(MatchName(t, m))}

\* the n-th position of ps in increasing order
Nth(ps, n) == CHOOSE p \in ps : Cardinality({q \in ps : q <= p}) = n

\* C11: extractVariableNames returns the names of the expressions of the
\* template from left to right, one entry for each occurrence, duplicates
\* kept, and no name that is recognized as a builtin.
C11_NamesInOrder ==
    Extracted =>
        /\ Len(names) = Cardinality(UserStarts(template))
        /\ \A n \in DOMAIN names :
              /\ names[n] = MatchName(template, Nth(UserStarts(template), n))
              /\ ~isBuiltinVariable(names[n])

\* a template with a repeated name and a builtin between its occurrences
C11_Witness ==
    /\ Extracted
    /\ Contains(template, <<"{","n","o","w","}">>)
    /\ \E m, n \in DOMAIN names : m < n /\ names[m] = names[n]

\* C12: getMissingVariables is the subsequence of extractVariableNames of the
\* names not defined in the variable map, in the same order; it is empty
\* when every used name is defined and it is extractVariableNames when the
\* map is empty.
C12_MissingIsUndefinedSubsequence ==
    call = "getMissingVariables" /\ pc = "done" =>
        /\ missing = SelectSeq(names, LAMBDA n : n \notin OwnKeys(variables))
        /\ (\A n \in DOMAIN names : names[n] \in OwnKeys(variables)) => missing = <<>>
        /\ variables = <<>> => missing = names

\* some names of the template are defined and some are not
C12_Witness ==
    /\ call = "getMissingVariables" /\ pc = "done"
    /\ missing # <<>> /\ missing # names
    /\ Len(missing) >= 2

(***************************************************************************)
(* Properties of parseVariableExpression                                   *)
(***************************************************************************)
Parsed == call = "parseVariableExpression" /\ pc = "done"

\* C13: parseVariableExpression splits the expression on ':' into the name
\* and the modifiers in their order, nothing dropped: joining them with ':'
\* gives the expression back, and neither the name nor a modifier contains
\* ':'.
C13_SplitOnColons ==
    Parsed =>
        /\ Join(<<pParsed.name>> \o pParsed.modifiers, <<":">>) = pExpression
        /\ ~Contains(pParsed.name, <<":">>)
        /\ \A i \in DOMAIN pParsed.modifiers : ~Contains(pParsed.modifiers[i], <<":">>)

\* a modifier given twice, and an empty one
C13_Witness ==
    /\ Parsed
    /\ \E i, j \in DOMAIN pParsed.modifiers :
          i < j /\ pParsed.modifiers[i] = pParsed.modifiers[j] /\ pParsed.modifiers[i] # <<>>
    /\ \E i \in DOMAIN pParsed.modifiers : pParsed.modifiers[i] = <<>>

(***************************************************************************)
(* Properties of the resolvers                                             *)
(***************************************************************************)
ResolvedAs(keys) == Resolved /\ toLowerCase(bName) \in keys

\* C14: for every sequence of draws and whatever the modifiers, the uuid
\* builtin returns 36 characters: lower-case hex digits in groups of 8, 4, 4,
\* 4 and 12 separated by hyphens, the first of the third group being 4 and
\* the first of the fourth group one of 8, 9, a, b.
C14_UuidLayout ==
    ResolvedAs({<<"u","u","i","d">>}) =>
        /\ bResolved.t = "string"
        /\ Len(bResolved.s) = 36
        /\ \A i \in 1..36 :
              IF i \in {9, 14, 19, 24} THEN bResolved.s[i] = "-"
              ELSE IF i = 15 THEN bResolved.s[i] = "4"
              ELSE IF i = 20 THEN bResolved.s[i] \in {"8", "9", "a", "b"}
              ELSE bResolved.s[i] \in Range(HexDigits)

\* a uuid resolved under modifiers with the greatest draw and another one
C14_Witness ==
    /\ ResolvedAs({<<"u","u","i","d">>}) /\ bModifiers # <<>>
    /\ bResolved.s[20] = "b" /\ bResolved.s[1] = "f" /\ bResolved.s[2] # "f"

\* the range the modifiers of a call of random ask for
AskedRange == RangeOf(FirstRange(bModifiers))

\* C15: random and rand return the decimal rendering of an integer between
\* min and max inclusive for every draw: 0 and 100 when no modifier has the
\* range form, a and b for the first modifier a-b, when a <= b.
C15_RandomInRange ==
    ResolvedAs({<<"r","a","n","d","o","m">>, <<"r","a","n","d">>}) /\ AskedRange.min <= AskedRange.max =>
        /\ bResolved.t = "string"
        /\ \A i \in DOMAIN bResolved.s : IsDigit(bResolved.s[i])
        /\ parseInt(bResolved.s) >= AskedRange.min
        /\ parseInt(bResolved.s) <= AskedRange.max

\* the seconds of the fixed duration of a unit
UnitSeconds(unit) ==
    CASE unit = "s" -> 1
      [] unit = "m" -> 60
      [] unit = "h" -> 3600
      [] unit = "d" -> 86400
      [] unit = "w" -> 604800

\* the instant sec seconds after date
After(date, sec) == MakeDate(date.day + (sec \div 86400), date.ms + (sec % 86400) * 1000)

\* the fields f with the month field moved by a months, carrying into the year
MonthMoved(f, a) ==
    [f EXCEPT !.year = f.year + ((f.month - 1 + a) \div 12),
              !.month = ((f.month - 1 + a) % 12) + 1]

\* what [utc, offset, preset] is to render at the clock of e: the preset of
\* the shifted instant, or of the UTC fields with the month or year changed
ShiftedRendering(offset, preset, e) ==
    IF offset.unit = "M"
    THEN FormatValid(e.clock, IsoOfFields(MonthMoved(Fields(e.clock, TRUE, e), offset.amount)),
                     preset, TRUE, e)
    ELSE IF offset.unit = "y"
    THEN FormatValid(e.clock,
                     IsoOfFields([Fields(e.clock, TRUE, e) EXCEPT !.year = @ + offset.amount]),
                     preset, TRUE, e)
    ELSE formatDate(After(e.clock, offset.amount * UnitSeconds(offset.unit)),
                    preset, TRUE, e).s

\* a call [utc, offset, preset] of the time builtin that returned
OffsetCall ==
    /\ ResolvedAs({<<"n","o","w">>, <<"t","i","m","e","s","t","a","m","p">>}) /\ bResolved.t = "string"
    /\ Len(bModifiers) = 3
    /\ bModifiers[1] = <<"u","t","c">>
    /\ OffsetMatches(bModifiers[2])
    /\ bModifiers[3] \in TIME_FORMATS
    /\ parseOffset(bModifiers[2]).unit \in {"M", "y"} =>
           bModifiers[3] \in {<<"i","s","o">>, <<"d","a","t","e">>, <<"t","i","m","e">>, <<"d","a","t","e","t","i","m","e">>}

\* C16: with the clock at t, [utc, offset, preset] renders t plus the amount
\* times the fixed duration of the unit for s, m, h, d, w, and for M and y the
\* fields of t with the month or year changed by the amount and the other
\* fields kept.
C16_OffsetShiftsInstant ==
    OffsetCall =>
        bResolved.s = ShiftedRendering(parseOffset(bModifiers[2]),
                                       FormatName(bModifiers[3]), env)

(***************************************************************************)
(* Properties of exportConnection and importConnection                     *)
(***************************************************************************)
Exported == call = "importConnection" /\ pc = "open"

Imported == call = "importConnection" /\ pc = "done"

\* C17: when the save dialog gives no path, exportConnection returns false
\* and writeTextFile is not called; when the open dialog gives null or
\* something that is not a string, importConnection returns null and
\* readTextFile is not called.
C17_CancelledNoFileIO ==
    /\ Exported /\ dialog.t = "null" =>
           /\ returned = JsVal("boolean", <<"f","a","l","s","e">>, <<>>)
           /\ io = <<>> /\ file = <<>>
    /\ Imported /\ dialog.t # "string" =>
           /\ returned = NullVal
           /\ \A i \in DOMAIN io : io[i] # "readTextFile"

C17_Witness ==
    /\ Imported /\ dialog.t = "array" /\ returned = NullVal
    /\ io = <<"writeTextFile">>

\* the object c without its property key
Omit(c, key) == JsVal("object", <<>>, SelectSeq(c.a, LAMBDA m : m.k # key))

\* v as property reads see it: a property whose value is undefined reads as
\* an absent one does, at every depth
RECURSIVE Readable(_)
Readable(v) ==
    IF v.t \notin {"object", "array"} THEN v
    ELSE JsVal(v.t, <<>>,
               [i \in DOMAIN SelectSeq(v.a, LAMBDA m : m.v.t # "undefined") |->
                  [k |-> SelectSeq(v.a, LAMBDA m : m.v.t # "undefined")[i].k,
                   v |-> Readable(SelectSeq(v.a, LAMBDA m : m.v.t # "undefined")[i].v)]])

\* C18: the data exportConnection(c) writes has no id field, and
\* importConnection reading that file returns an object equal to c with the
\* id removed, every other field preserved (equal as property reads see the
\* two objects).
C18_ExportImportRoundTrip ==
    Imported /\ io = <<"writeTextFile", "readTextFile">> =>
        /\ \A i \in DOMAIN JSONparse(file).a : JSONparse(file).a[i].k # <<"i","d">>
        /\ returned = Readable(Omit(connection, <<"i","d">>))

C18_Witness ==
    /\ Imported /\ io = <<"writeTextFile", "readTextFile">>
    /\ connection.a[1].k = <<"i","d">>
    /\ Len(returned.a) = 9
    /\ returned.a[1] = [k |-> <<"n","a","m","e">>, v |-> StringVal(<<"T","e","s","t"," ","C","o","n","n","e","c","t","i","o","n">>)]
    /\ returned.a[7].v.a[2].k = <<"i","d">>
    /\ returned.a[8].v.a[1].v.a[1] = [k |-> <<"i","d">>, v |-> StringVal(<<"b","t","n","-","1">>)]

(***************************************************************************)
(* Properties of the time builtin's modifiers                              *)
(***************************************************************************)
\* the pattern P of a template {now:utc:fmt:P}
PatternOf(t) == SubSeq(t, 14, Len(t) - 1)

\* C19: for every colon-free pattern P the template {now:utc:fmt:P} resolves
\* through substituteVariables to what resolveBuiltin('now', ['utc', 'fmt:P'])
\* returns, the instant rendered with the tokens of P replaced.
C19_TemplateFormatReachesRenderer ==
    /\ Returned /\ startsWith(template, <<"{","n","o","w",":","u","t","c",":","f","m","t",":">>)
    /\ template[Len(template)] = "}"
    /\ \A i \in DOMAIN PatternOf(template) : PatternOf(template)[i] \notin {":", "{", "}"}
    => result = ToString(resolveBuiltin(<<"n","o","w">>, <<<<"u","t","c">>, <<"f","m","t",":">> \o PatternOf(template)>>,
                                        env, 0))

\* the kinds of modifier the time builtin knows
IsZone(mod) == toLowerCase(mod) \in {<<"u","t","c">>, <<"l","o","c","a","l">>}

IsPreset(mod) == toLowerCase(mod) \in TIME_FORMATS

\* the positions in modifiers of the tokens of one kind
Zones(modifiers) == {i \in DOMAIN modifiers : IsZone(modifiers[i])}

Presets(modifiers) == {i \in DOMAIN modifiers : IsPreset(modifiers[i])}

OffsetsIn(modifiers) ==
    {i \in DOMAIN modifiers :
        OffsetMatches(modifiers[i]) /\ ~IsZone(modifiers[i]) /\ ~IsPreset(modifiers[i])}

Last(ps) == CHOOSE i \in ps : \A j \in ps : j <= i

\* the settings modifiers ask for when the last token of each kind wins and
\* the other tokens are ignored
LastOfEachKind(modifiers) ==
    [offset |-> IF OffsetsIn(modifiers) = {} THEN NoOffset
                ELSE parseOffset(modifiers[Last(OffsetsIn(modifiers))]),
     timezone |-> IF Zones(modifiers) = {} THEN ""
                  ELSE IF toLowerCase(modifiers[Last(Zones(modifiers))]) = <<"u","t","c">> THEN "utc"
                  ELSE "local",
     format |-> IF Presets(modifiers) = {} THEN ""
                ELSE FormatName(toLowerCase(modifiers[Last(Presets(modifiers))])),
     hasCustom |-> FALSE,
     customFormat |-> <<>>]

\* C20: in the modifiers of the time builtin the last utc/local token sets
\* the zone, the last preset the format and the last token of offset form
\* the one offset that is applied; other tokens are ignored and the order of
\* tokens of different kinds does not matter (lists without a custom format).
C20_LastOfEachKindWins ==
    /\ ResolvedAs({<<"n","o","w">>, <<"t","i","m","e","s","t","a","m","p">>})
    /\ \A i \in DOMAIN bModifiers : ~startsWith(bModifiers[i], <<"f","m","t",":">>)
    => bResolved = NowOfParsed(LastOfEachKind(bModifiers), env)

C20_Witness ==
    /\ ResolvedAs({<<"n","o","w">>})
    /\ bModifiers = <<<<"+","1","M">>, <<"u","t","c">>, <<"-","1","h">>>>
    /\ bResolved = StringVal(<<"2","0","2","4","-","0","6","-","1","5","T","0","9",":","3","0",":","4","5",".","1","2","3","Z">>)

\* the positions in modifiers of the tokens with the fmt: prefix
Customs(modifiers) == {i \in DOMAIN modifiers : startsWith(modifiers[i], <<"f","m","t",":">>)}

\* the clock of e after the last offset among modifiers
Shifted(modifiers, e) ==
    IF LastOfEachKind(modifiers).offset.has
    THEN applyOffset(e.clock, LastOfEachKind(modifiers).offset, e)
    ELSE e.clock

\* C21: the time builtin applies the offset and then, whenever a modifier has
\* the fmt: prefix, renders with the custom pattern and ignores the presets,
\* an empty pattern included; otherwise it renders the preset, otherwise ISO.
C21_CustomFormatPrecedence ==
    ResolvedAs({<<"n","o","w">>, <<"t","i","m","e","s","t","a","m","p">>}) =>
        bResolved =
            IF Customs(bModifiers) # {}
            THEN StringVal(formatCustom(Shifted(bModifiers, env),
                                        SubSeq(bModifiers[Last(Customs(bModifiers))], 5,
                                               Len(bModifiers[Last(Customs(bModifiers))])),
                                        LastOfEachKind(bModifiers).timezone = "utc", env))
            ELSE formatDate(Shifted(bModifiers, env),
                            IF LastOfEachKind(bModifiers).format = "" THEN "iso"
                            ELSE LastOfEachKind(bModifiers).format,
                            LastOfEachKind(bModifiers).timezone = "utc", env)

\* the tokens of custom patterns, each double before its single
PatternTokens ==
    << <<"Y","Y","Y","Y">>, <<"Y","Y">>, <<"M","M">>, <<"M">>, <<"D","D">>, <<"D">>, <<"H","H">>, <<"H">>, <<"m","m">>, <<"s","s">>, <<"S","S","S">> >>

\* the positions of the tokens that p starts with
TokensAt(p) == {k \in DOMAIN PatternTokens : startsWith(p, PatternTokens[k])}

\* p cut into tokens and single literal characters, the longest token first
RECURSIVE Tokenize(_)
Tokenize(p) ==
    IF Len(p) = 0 THEN <<>>
    ELSE IF TokensAt(p) = {} THEN << <<p[1]>> >> \o Tokenize(Tail(p))
    ELSE << PatternTokens[Least(TokensAt(p))] >>
           \o Tokenize(SubSeq(p, Len(PatternTokens[Least(TokensAt(p))]) + 1, Len(p)))

\* every token at most once, and no letter of a token in the literal text
OncePattern(p) ==
    /\ \A i, j \in DOMAIN Tokenize(p) :
          Tokenize(p)[i] = Tokenize(p)[j] /\ Len(Tokenize(p)[i]) > 1 => i = j
    /\ \A i, j \in DOMAIN Tokenize(p) :
          Tokenize(p)[i] = Tokenize(p)[j] /\ Tokenize(p)[i] \in {<<"M">>, <<"D">>, <<"H">>} => i = j
    /\ \A i \in DOMAIN Tokenize(p) : Tokenize(p)[i] \notin {<<"Y">>, <<"m">>, <<"s">>, <<"S">>}

\* the date field a token stands for, zero-padded where the token is doubled
FieldText(tok, f) ==
    CASE tok = <<"Y","Y","Y","Y">> -> IntToString(f.year)
      [] tok = <<"Y","Y">> -> padStart(IntToString(f.year % 100), 2)
      [] tok = <<"M","M">> -> padStart(IntToString(f.month), 2)
      [] tok = <<"M">> -> IntToString(f.month)
      [] tok = <<"D","D">> -> padStart(IntToString(f.date), 2)
      [] tok = <<"D">> -> IntToString(f.date)
      [] tok = <<"H","H">> -> padStart(IntToString(f.hours), 2)
      [] tok = <<"H">> -> IntToString(f.hours)
      [] tok = <<"m","m">> -> padStart(IntToString(f.minutes), 2)
      [] tok = <<"s","s">> -> padStart(IntToString(f.seconds), 2)
      [] tok = <<"S","S","S">> -> padStart(IntToString(f.ms), 3)
      [] OTHER -> tok

\* the pattern of a call whose only modifier is fmt:pattern
OnlyPattern == SubSeq(bModifiers[1], 5, Len(bModifiers[1]))

\* C22: for a pattern in which each token occurs at most once and whose
\* literal text has none of the letters Y, M, D, H, m, s, S, the custom
\* rendering is the pattern with every token replaced by its date field and
\* the literal text unchanged.
C22_TokensReplacedOnce ==
    /\ ResolvedAs({<<"n","o","w">>}) /\ Len(bModifiers) = 1 /\ Len(bModifiers[1]) > 4
    /\ startsWith(bModifiers[1], <<"f","m","t",":">>) /\ OncePattern(OnlyPattern)
    => bResolved =
         StringVal(Flatten([i \in DOMAIN Tokenize(OnlyPattern) |->
                              FieldText(Tokenize(OnlyPattern)[i], Fields(env.clock, FALSE, env))]))

C22_Witness ==
    /\ ResolvedAs({<<"n","o","w">>}) /\ bModifiers = << <<"f","m","t",":","M","-","M","M">> >>
    /\ bResolved = StringVal(<<"6","-","0","6">>)

\* the positions in modifiers of the tokens of range form
Ranges(modifiers) == {i \in DOMAIN modifiers : RangeMatches(modifiers[i])}

\* C23: when several modifiers of random have the range form, the result is
\* the one the first of them alone gives on the same draw; later ranges and
\* the modifiers of another form have no effect.
C23_FirstRangeWins ==
    ResolvedAs({<<"r","a","n","d","o","m">>, <<"r","a","n","d">>}) /\ Ranges(bModifiers) # {} =>
        bResolved = handleRandom(<< bModifiers[Least(Ranges(bModifiers))] >>, env, 0)

C23_Witness ==
    /\ ResolvedAs({<<"r","a","n","d","o","m">>, <<"r","a","n","d">>})
    /\ bModifiers = <<<<"x">>, <<"3","-","4">>, <<"7","-","9">>>>
    /\ bResolved = StringVal(<<"4">>)

(***************************************************************************)
(* Properties of the passes of substituteVariables                         *)
(***************************************************************************)
\* C24: when substituteVariables returns after fewer than 10 passes, its
\* result is a fixed point: a further pass replaces nothing that changes it,
\* so substituteVariables(result, variables), whose first pass this is,
\* returns result.
C24_FixedPointBelowCap ==
    Returned /\ iterations < maxIterations =>
        /\ ~ReplaceAll(result, variables, env, drawn).threw
        /\ ReplaceAll(result, variables, env, drawn).out = result

C24_Witness ==
    /\ Returned /\ iterations = 3 /\ result # template
    /\ ReplaceAll(template, variables, env, 0).out # result
    /\ \E i \in DOMAIN template : MatchEnd(template, i) # 0

\* C25: for the template {a1} and variables a1 = "{a2}", ..., ad = a
\* brace-free literal with d <= 10, substituteVariables returns the literal:
\* the cap of 10 passes does not cut an acyclic nesting of that depth.
C25_ChainResolvedWithinCap ==
    \A d \in 1..maxIterations :
        Returned /\ template = <<"{","a","1","}">> /\ variables = Chain(d) =>
            /\ result = <<"o","n","/","1">>
            /\ \A i \in DOMAIN result : MatchEnd(result, i) = 0

C25_Witness ==
    /\ Returned /\ template = <<"{","a","1","}">> /\ variables = Chain(maxIterations)
    /\ iterations = maxIterations /\ result = <<"o","n","/","1">>

(***************************************************************************)
(* The missing-variable hint against the substitution                      *)
(***************************************************************************)
\* the positions of t at which an expression starts
ExpressionStarts(t) == {i \in DOMAIN t : MatchEnd(t, i) # 0}

\* no expression of t names a builtin
BuiltinFree(t) == \A i \in ExpressionStarts(t) : ~isBuiltinVariable(MatchName(t, i))

\* C26: for a builtin-free template and a map of brace-free values, when
\* getMissingVariables reports nothing the result of substituteVariables
\* holds no brace expression, and every name reported missing is that of an
\* expression of the template left verbatim in the result.
C26_HintAgreesWithResolution ==
    Returned /\ BuiltinFree(template) /\ BraceFree(variables) =>
        /\ getMissingVariables(template, variables) = <<>> =>
               ExpressionStarts(result) = {}
        /\ \A n \in DOMAIN getMissingVariables(template, variables) :
              \E i \in ExpressionStarts(template) :
                  /\ MatchName(template, i) = getMissingVariables(template, variables)[n]
                  /\ Contains(result, SubSeq(template, i, MatchEnd(template, i)))

(***************************************************************************)
(* Properties of AppProvider                                               *)
(***************************************************************************)
\* operation s is the only one called and no mqtt-status event came since
Alone(s) ==
    /\ \A r \in DOMAIN ops : r # s => ops[r].pc = "idle"
    /\ ops[s].before.events = events

\* C27: when api.saveData rejects during addConnection, switchConnection,
\* updateConnection or deleteConnection, the data in memory, the active
\* connection id and the connection status are what they were when the
\* operation was called, the error message is recorded and the operation
\* rejects.
C27_FailedSaveLeavesState ==
    call = "AppProvider" =>
        \A s \in DOMAIN ops :
            ops[s].pc = "rejected" /\ Alone(s) =>
                /\ data = ops[s].before.data
                /\ activeConnectionId = ops[s].before.active
                /\ connectionStatus = ops[s].before.status
                /\ error = "Failed to save data"

\* the data d holds what operation o on the active connection asked for
Effect(o, d) ==
    IF o.kind = "addButton"
    THEN \E i \in DOMAIN Find(d, o.before.active).buttons :
            Find(d, o.before.active).buttons[i] = o.arg
    ELSE Find(d, o.before.active).variables = o.arg

\* C28: when two different operations on the active connection (addButton,
\* updateVariables) are called before the save of the first has completed
\* and the state was refreshed, then after both have completed the saved
\* data and the data in memory hold the effects of both.
C28_NoUpdateLost ==
    (/\ call = "AppProvider"
     /\ ops[1].pc = "done" /\ ops[2].pc = "done"
     /\ ops[1].kind \in {"addButton", "updateVariables"}
     /\ ops[2].kind \in {"addButton", "updateVariables"}
     /\ <<ops[1].kind, ops[1].arg>> # <<ops[2].kind, ops[2].arg>>
     /\ ops[2].before.data = ops[1].before.data)
    => /\ Effect(ops[1], data) /\ Effect(ops[2], data)
       /\ Effect(ops[1], saved) /\ Effect(ops[2], saved)

(***************************************************************************)
(* Properties of ButtonCard                                                *)
(***************************************************************************)
\* C29: in every state of a button card, no interval timer is scheduled
\* while isMultiSending is false, and at most one interval timer is
\* scheduled at any time.
C29_TimerOnlyWhileMultiSending ==
    call = "ButtonCard" =>
        /\ ~isMultiSending => timers = {}
        /\ Cardinality(timers) <= 1

(***************************************************************************)
(* Properties of MessageViewer                                             *)
(***************************************************************************)
\* C30: in every state the viewer holds at most 100 messages, in the order
\* of their arrival, and none while the status is not connected; a message
\* that arrives at a full list drops exactly the oldest one.
C30_AtMostHundredMessages ==
    /\ [](call = "MessageViewer" =>
            /\ Len(messages) <= MaxMessages
            /\ \A i, j \in DOMAIN messages : i < j => messages[i] < messages[j]
            /\ connectionStatus # "connected" => messages = <<>>)
    /\ [][MessageEvent /\ Len(messages) = MaxMessages
            => messages' = Append(Tail(messages), arrived')]_vars

====
